---- MODULE Spec2Model ----
(***************************************************************************)
(* Model of the open-flix backend (backend/index.js): the add-media        *)
(* ingest (POST /api/media), the episode re-sync (POST                     *)
(* /api/media/:id/rescrape) and the watched toggles, over a PostgreSQL     *)
(* store accessed through per-request clients and transactions.            *)
(*                                                                         *)
(* Text is modelled as a sequence of one-character strings, so that the    *)
(* regular expressions and the splitting the handlers apply are computed.  *)
(***************************************************************************)
EXTENDS Integers, Sequences, FiniteSets, TLC

VARIABLES db, seq, tx, req, held, nreq, TMDB_API_KEY, groupedMedia, call

vars == <<db, seq, tx, req, held, nreq, TMDB_API_KEY, groupedMedia, call>>

\* What no handler of the backend changes: the TMDB_API_KEY of the environment
\* (TRUE when one is set), the library as the browser last fetched it, and the
\* call of a text helper taken on its own (its name, argument and result).
outside == <<TMDB_API_KEY, groupedMedia, call>>

(***************************************************************************)
(* Bounds of the model.                                                    *)
(***************************************************************************)
\* Number of requests (handlers started, toggles included) in one behaviour of
\* Spec, where they run one after the other.
MaxRequests == 3

\* Number of requests in one behaviour of ConcSpec, where two may run at once.
MaxConcRequests == 2

\* Number of requests in one behaviour of CatalogSpec, and the largest count of
\* pages a discovery request asks for.
MaxCatalogRequests == 2

MaxPages == 2

\* Number of requests in one behaviour of LibrarySpec, which adds the season
\* toggle and the deletion of a media item to the requests of Spec.
MaxLibraryRequests == 3

\* Number of re-syncs in one behaviour of ResyncSpec, where two may run at once.
MaxResyncs == 2

(***************************************************************************)
(* Text helpers.                                                           *)
(***************************************************************************)
Digits == <<"0", "1", "2", "3", "4", "5", "6", "7", "8", "9">>

IsDigit(c) == c \in {"0", "1", "2", "3", "4", "5", "6", "7", "8", "9"}

DigitVal(c) == (CHOOSE d \in 1..Len(Digits) : Digits[d] = c) - 1

\* String.prototype.trim, for the blank character.
RECURSIVE TrimLeft(_)
TrimLeft(s) == IF s # <<>> /\ Head(s) = " " THEN TrimLeft(Tail(s)) ELSE s

RECURSIVE TrimRight(_)
TrimRight(s) ==
  IF s # <<>> /\ s[Len(s)] = " " THEN TrimRight(SubSeq(s, 1, Len(s) - 1)) ELSE s

Trim(s) == TrimRight(TrimLeft(s))

\* parseInt(text, 10) of a run of decimal digits.
RECURSIVE ParseInt(_)
ParseInt(s) ==
  IF s = <<>> THEN 0 ELSE 10 * ParseInt(SubSeq(s, 1, Len(s) - 1)) + DigitVal(s[Len(s)])

\* The last position of the maximal run of digits of s that starts at i (i - 1 if
\* s[i] is no digit): what a greedy \d+ consumes.
RECURSIVE RunEnd(_, _)
RunEnd(s, i) == IF i <= Len(s) /\ IsDigit(s[i]) THEN RunEnd(s, i + 1) ELSE i - 1

\* Does the literal text sub occur in s at position i?
OccursAt(s, sub, i) ==
  /\ i >= 1
  /\ i + Len(sub) - 1 <= Len(s)
  /\ SubSeq(s, i, i + Len(sub) - 1) = sub

\* String.prototype.includes.
Includes(s, sub) == \E i \in 1..(Len(s) + 1) : OccursAt(s, sub, i)

\* String.prototype.split(sep) for a one-character separator.
RECURSIVE Split(_, _)
Split(s, sep) ==
  IF \E i \in 1..Len(s) : s[i] = sep
  THEN LET i == CHOOSE k \in 1..Len(s) : s[k] = sep /\ \A j \in 1..(k - 1) : s[j] # sep
       IN  <<SubSeq(s, 1, i - 1)>> \o Split(SubSeq(s, i + 1, Len(s)), sep)
  ELSE <<s>>

Min(S) == CHOOSE x \in S : \A y \in S : x <= y

Max(S) == CHOOSE x \in S : \A y \in S : x >= y

\* No match of a regular expression.
NoMatch == <<>>

(***************************************************************************)
(* parseAirDate: "13 Jan 15" to a Date.  A Date is NullDate (null), a      *)
(* record [y, m, d], or InvalidDate (the Date object whose time value is   *)
(* NaN, which new Date(text) yields for a text it cannot parse).           *)
(***************************************************************************)
NullDate == [kind |-> "null", y |-> 0, m |-> 0, d |-> 0]

InvalidDate == [kind |-> "invalid", y |-> 0, m |-> 0, d |-> 0]

Months ==
  << <<"J","a","n">>, <<"F","e","b">>, <<"M","a","r">>, <<"A","p","r">>,
     <<"M","a","y">>, <<"J","u","n">>, <<"J","u","l">>, <<"A","u","g">>,
     <<"S","e","p">>, <<"O","c","t">>, <<"N","o","v">>, <<"D","e","c">> >>

AllDigits(s) == s # <<>> /\ \A i \in 1..Len(s) : IsDigit(s[i])

\* new Date("D Mon YYYY") for a text of the shape number, word, number: a known
\* month name gives that day; a word that is no month name, read after a number,
\* makes the text unparseable.
NewDate(day, month, year) ==
  IF /\ AllDigits(day)
     /\ AllDigits(year)
     /\ \E m \in 1..Len(Months) : Months[m] = month
     /\ ParseInt(day) \in 1..31
  THEN [kind |-> "date",
        y |-> ParseInt(year),
        m |-> CHOOSE m \in 1..Len(Months) : Months[m] = month,
        d |-> ParseInt(day)]
  ELSE InvalidDate

\* The date as it would be if the year were read as written, without "20".
parseAirDateShortYear(dateStr) ==
  LET parts == Split(dateStr, " ")
  IN  IF Len(parts) # 3
      THEN NullDate
      ELSE NewDate(parts[1], parts[2], parts[3])

parseAirDate(dateStr) ==
  LET parts == Split(dateStr, " ")
  IN  IF Len(parts) # 3
      THEN NullDate
      ELSE NewDate(parts[1], parts[2], <<"2", "0">> \o parts[3])

\* A nullable integer column value: null, a number, or NaN.
NullInt == [kind |-> "null", v |-> 0]

NaN == [kind |-> "NaN", v |-> 0]

IntVal(n) == [kind |-> "int", v |-> n]

\* airDate ? airDate.getFullYear() : null.  A Date object is truthy even when it
\* is invalid, and getFullYear() of an invalid Date is NaN.
yearForSeason(airDate) ==
  IF airDate.kind = "null" THEN NullInt
  ELSE IF airDate.kind = "invalid" THEN NaN
  ELSE IntVal(airDate.y)

(***************************************************************************)
(* The episode guide: a document is the sequence of its <tr> rows.  A row  *)
(* is [header, htext, cols, anchor]: whether it holds a                    *)
(* td.bold[colspan='4'] cell and that cell's text, the texts of its <td>   *)
(* cells, and the text of the <a> inside its fourth cell.                  *)
(***************************************************************************)
\* text.match(/Season (\d+)/): the digits of the first "Season N", or NoMatch.
SeasonWord == <<"S", "e", "a", "s", "o", "n", " ">>

seasonMatch(text) ==
  LET starts == {i \in 1..Len(text) :
                   /\ OccursAt(text, SeasonWord, i)
                   /\ RunEnd(text, i + Len(SeasonWord)) >= i + Len(SeasonWord)}
  IN  IF starts = {} THEN NoMatch
      ELSE LET i == Min(starts)
           IN  <<SubSeq(text, i + Len(SeasonWord), RunEnd(text, i + Len(SeasonWord)))>>

SpecialsWord == <<"S", "p", "e", "c", "i", "a", "l", "s">>

\* text.match(/(\d+)-(\d+)/): the leftmost run of digits followed by "-" and a
\* digit; the groups are that run and the run after the "-".
regularMatch(text) ==
  LET starts == {i \in 1..Len(text) :
                   /\ IsDigit(text[i])
                   /\ LET j == RunEnd(text, i)
                      IN  /\ OccursAt(text, <<"-">>, j + 1)
                          /\ RunEnd(text, j + 2) >= j + 2}
  IN  IF starts = {} THEN NoMatch
      ELSE LET i == Min(starts)
               j == RunEnd(text, i)
           IN  <<SubSeq(text, i, j), SubSeq(text, j + 2, RunEnd(text, j + 2))>>

\* The match as it would be if no text were of the special pattern.
specialMatchNever(text) == NoMatch

\* text.match(/S(\d+)\..*-(\d+)/): the leftmost "S", digits, "."; then, .* being
\* greedy, the last "-" that a digit follows.
specialMatch(text) ==
  LET dashes(from) == {k \in from..Len(text) :
                         text[k] = "-" /\ RunEnd(text, k + 1) >= k + 1}
      starts == {i \in 1..Len(text) :
                   /\ text[i] = "S"
                   /\ LET j == RunEnd(text, i + 1)
                      IN  /\ j >= i + 1
                          /\ OccursAt(text, <<".">>, j + 1)
                          /\ dashes(j + 2) # {}}
  IN  IF starts = {} THEN NoMatch
      ELSE LET i == Min(starts)
               j == RunEnd(text, i + 1)
               k == Max(dashes(j + 2))
           IN  <<SubSeq(text, i + 1, j), SubSeq(text, k + 1, RunEnd(text, k + 1))>>

\* One step of the row loop of a guide parse on row `row` with running counter
\* `currentSeason`: the new counter and, when the row is accepted, the values the
\* two INSERTs are given.
ParseRow(currentSeason, row) ==
  LET skip(cs) == [currentSeason |-> cs, accept |-> FALSE, seasonForEpisode |-> 0,
                   episodeInSeason |-> 0, titleFromFile |-> <<>>, airDate |-> NullDate]
      take(m) == [currentSeason |-> currentSeason, accept |-> TRUE,
                  seasonForEpisode |-> ParseInt(m[1]),
                  episodeInSeason |-> ParseInt(m[2]),
                  titleFromFile |-> Trim(row.anchor),
                  airDate |-> parseAirDate(Trim(row.cols[3]))]
  IN  IF row.header
      THEN LET header == seasonMatch(row.htext)
           IN  IF header # NoMatch
               THEN skip(ParseInt(header[1]))
               ELSE IF Includes(row.htext, SpecialsWord) THEN skip(0)
               ELSE skip(currentSeason)
      ELSE IF currentSeason >= 0 /\ Len(row.cols) = 4
      THEN LET episodeNumberStr == Trim(row.cols[2])
               special == specialMatch(episodeNumberStr)
               regular == regularMatch(episodeNumberStr)
           IN  IF special # NoMatch
               THEN take(special)
               ELSE IF regular # NoMatch
               THEN IF /\ currentSeason # 0
                       /\ ParseInt(regular[1]) # currentSeason
                    THEN skip(currentSeason)
                    ELSE take(regular)
               ELSE skip(currentSeason)
      ELSE skip(currentSeason)

\* The (season number, episode number) keys a whole parse of `rows` accepts, in
\* row order: the row loop run without its INSERTs.
RECURSIVE ParsedKeysFrom(_, _, _)
ParsedKeysFrom(rows, i, currentSeason) ==
  IF i > Len(rows) THEN <<>>
  ELSE LET r == ParseRow(currentSeason, rows[i])
       IN  (IF r.accept THEN <<[season |-> r.seasonForEpisode,
                                episode |-> r.episodeInSeason,
                                airDate |-> r.airDate]>>
            ELSE <<>>)
           \o ParsedKeysFrom(rows, i + 1, r.currentSeason)

ParsedKeys(rows) == ParsedKeysFrom(rows, 1, 0)

(***************************************************************************)
(* normalizeTitleForEpguides and getEpguidesShowUrl.                       *)
(***************************************************************************)
AlphaNum ==
  {"a","b","c","d","e","f","g","h","i","j","k","l","m","n","o","p","q","r","s","t",
   "u","v","w","x","y","z","A","B","C","D","E","F","G","H","I","J","K","L","M","N",
   "O","P","Q","R","S","T","U","V","W","X","Y","Z","0","1","2","3","4","5","6","7",
   "8","9"}

\* The text without its characters from..to.
Cut(s, from, to) == SubSeq(s, 1, from - 1) \o SubSeq(s, to + 1, Len(s))

FourDigits(s, i) ==
  i + 3 <= Len(s) /\ \A k \in i..(i + 3) : IsDigit(s[k])

TVSeriesWord == <<"(", "T", "V", " ", "S", "e", "r", "i", "e", "s", " ">>

\* The three characters the pattern has between the two years (the bytes of an
\* en dash read as Windows-1252), each written by its code point.
YearDash == <<"U+00E2", "U+20AC", "U+201C">>

\* The last position of the match of /\(TV Series \d{4}(?:<YearDash>\d{4})?\)/
\* that starts at i, or 0 when there is none.
TVSeriesEnd(s, i) ==
  LET y == i + Len(TVSeriesWord)
      z == y + 4 + Len(YearDash)
  IN  IF ~(OccursAt(s, TVSeriesWord, i) /\ FourDigits(s, y)) THEN 0
      ELSE IF /\ OccursAt(s, YearDash, y + 4)
              /\ FourDigits(s, z)
              /\ OccursAt(s, <<")">>, z + 4)
      THEN z + 4
      ELSE IF OccursAt(s, <<")">>, y + 4) THEN y + 4
      ELSE 0

USWord == <<"(", "U", "S", ")">>

\* text.replace(pattern, ''): the leftmost match removed.
RemoveTVSeries(s) ==
  LET starts == {i \in 1..Len(s) : TVSeriesEnd(s, i) # 0}
  IN  IF starts = {} THEN s ELSE Cut(s, Min(starts), TVSeriesEnd(s, Min(starts)))

RemoveUS(s) ==
  LET starts == {i \in 1..Len(s) : OccursAt(s, USWord, i)}
  IN  IF starts = {} THEN s ELSE Cut(s, Min(starts), Min(starts) + Len(USWord) - 1)

normalizeTitleForEpguides(title) ==
  SelectSeq(Trim(RemoveUS(Trim(RemoveTVSeries(title)))), LAMBDA c : c \in AlphaNum)

baseUrl ==
  <<"h","t","t","p","s",":","/","/","e","p","g","u","i","d","e","s",".","c","o","m","/">>

getEpguidesShowUrl(imdbTitle) ==
  baseUrl \o normalizeTitleForEpguides(imdbTitle) \o <<"/">>

(***************************************************************************)
(* The primary-source page.  A page is what the handler's queries find in  *)
(* it: [h1, titleTag, genres, actors, episodeLinks].                       *)
(***************************************************************************)
\* titleFromTag.match(/(.*)\s\(/): .* being greedy, the text before the last
\* blank that a "(" follows.
titleMatch(titleFromTag) ==
  LET ends == {i \in 1..Len(titleFromTag) :
                 titleFromTag[i] = " " /\ OccursAt(titleFromTag, <<"(">>, i + 1)}
  IN  IF ends = {} THEN NoMatch ELSE <<SubSeq(titleFromTag, 1, Max(ends) - 1)>>

\* The title of a page: the hero title, else the part of <title> before " (".
\* The empty text stands for "no title".
ExtractTitle(page) ==
  IF Trim(page.h1) # <<>> THEN Trim(page.h1)
  ELSE LET m == titleMatch(Trim(page.titleTag))
       IN  IF m # NoMatch /\ m[1] # <<>> THEN m[1] ELSE <<>>

\* $('a[href*="episodes"]').length > 0 ? 'tv_show' : 'movie'
MediaTypeOf(page) == IF page.episodeLinks > 0 THEN "tv_show" ELSE "movie"

\* imdbUrl.match(/title\/(tt\d+)/): the identifier, or NoMatch.
TitleSlashTT == <<"t", "i", "t", "l", "e", "/", "t", "t">>

imdbIdMatch(imdbUrl) ==
  LET starts == {i \in 1..Len(imdbUrl) :
                   /\ OccursAt(imdbUrl, TitleSlashTT, i)
                   /\ RunEnd(imdbUrl, i + Len(TitleSlashTT)) >= i + Len(TitleSlashTT)}
  IN  IF starts = {} THEN NoMatch
      ELSE LET i == Min(starts)
           IN  <<SubSeq(imdbUrl, i + 6, RunEnd(imdbUrl, i + Len(TitleSlashTT)))>>

(***************************************************************************)
(* Inputs: what the callers send and what the two sources answer.          *)
(***************************************************************************)
Procs == {"p1", "p2"}

UrlTT1 ==
  <<"i","m","d","b",".","c","o","m","/","t","i","t","l","e","/","t","t","1","/">>

UrlTT2 ==
  <<"i","m","d","b",".","c","o","m","/","t","i","t","l","e","/","t","t","2","/">>

UrlNoId == <<"i","m","d","b",".","c","o","m","/","n","a","m","e","/","n","m","1","/">>

ImdbUrls == {UrlTT1, UrlTT2, UrlNoId}

PageSeries ==
  [h1 |-> <<"L","o","s","t">>, titleTag |-> <<>>, genres |-> <<"Drama">>,
   actors |-> <<"Ann">>, episodeLinks |-> 1]

PageMovie ==
  [h1 |-> <<>>, titleTag |-> <<"U","p"," ","(","2","0","0","9",")">>,
   genres |-> <<"Drama">>, actors |-> <<"", "Ann">>, episodeLinks |-> 0]

PageTwice ==
  [h1 |-> <<"E","c","h","o">>, titleTag |-> <<>>, genres |-> <<"Drama", "Drama">>,
   actors |-> <<>>, episodeLinks |-> 0]

PageNoTitle ==
  [h1 |-> <<>>, titleTag |-> <<"I","M","D","b">>, genres |-> <<>>,
   actors |-> <<>>, episodeLinks |-> 0]

Pages == {PageSeries, PageMovie, PageTwice, PageNoTitle}

Hdr(text) == [header |-> TRUE, htext |-> text, cols |-> <<text>>, anchor |-> <<>>]

Data(number, airDate, title) ==
  [header |-> FALSE, htext |-> <<>>,
   cols |-> << <<"1">>, number, airDate, title >>, anchor |-> title]

Season1 == <<"S","e","a","s","o","n"," ","1">>

Season2 == <<"S","e","a","s","o","n"," ","2">>

Jan13 == <<"1","3"," ","J","a","n"," ","1","5">>

Jxn13 == <<"1","3"," ","J","x","n"," ","1","5">>

\* "Season 1", 1-1 "13 Jan 15" Pilot, 1-2 with no air date.
GuideSeason1 ==
  << Hdr(Season1),
     Data(<<"1","-","1">>, Jan13, <<"P">>),
     Data(<<"1","-","2">>, <<>>, <<"Q">>) >>

\* Two rows with the key 1-1.
GuideRepeat ==
  << Hdr(Season1),
     Data(<<"1","-","1">>, Jan13, <<"P">>),
     Data(<<"1","-","1">>, <<>>, <<"R">>) >>

\* A document with no row the parse accepts.
GuideNoRows ==
  << Hdr(Season1),
     [header |-> FALSE, htext |-> <<>>, cols |-> << <<"1">>, <<"1","-","1">>, Jan13 >>,
      anchor |-> <<>>] >>

\* A specials table: 0-1 under "Specials", then a row of the special pattern.
GuideSpecials ==
  << Hdr(SpecialsWord),
     Data(<<"0","-","1">>, Jan13, <<"X">>),
     Data(<<"S","1",".","x","-","2">>, <<>>, <<"Y">>) >>

\* The second data row's air date has three words that are no date.
GuideBadDate ==
  << Hdr(Season1),
     Data(<<"1","-","1">>, Jan13, <<"P">>),
     Data(<<"1","-","2">>, Jxn13, <<"Q">>) >>

\* "Season 2", 2-1, and a row 1-1 the running counter rejects.
GuideSeason2 ==
  << Hdr(Season2),
     Data(<<"2","-","1">>, Jan13, <<"S">>),
     Data(<<"1","-","1">>, Jan13, <<"P">>) >>

Guides ==
  {GuideSeason1, GuideRepeat, GuideNoRows, GuideSpecials, GuideBadDate, GuideSeason2}

\* The epguidesUrl a re-sync request may carry; the empty text is "none".
CustomUrls == {<<>>, <<"u">>}

(***************************************************************************)
(* The catalog (TMDB).  An item of a result page has an id, a media_type   *)
(* (the empty string when the endpoint gives none), a title (movies) or a  *)
(* name (series, people) and a poster_path (the empty string for null).    *)
(***************************************************************************)
ItemLost ==
  [id |-> 42, media_type |-> "tv", title |-> <<>>, name |-> <<"L","O","S","T">>,
   poster_path |-> "/l.jpg"]

ItemUp ==
  [id |-> 7, media_type |-> "movie", title |-> <<"U","p">>, name |-> <<>>,
   poster_path |-> "/u.jpg"]

ItemPerson ==
  [id |-> 3, media_type |-> "person", title |-> <<>>, name |-> <<"A","n","n">>,
   poster_path |-> "/a.jpg"]

ItemNoPoster ==
  [id |-> 9, media_type |-> "movie", title |-> <<"N","o">>, name |-> <<>>,
   poster_path |-> ""]

ItemNoType ==
  [id |-> 5, media_type |-> "", title |-> <<>>, name |-> <<"E","c","h","o">>,
   poster_path |-> "/e.jpg"]

\* The result pages the catalog may answer with.
CatalogPages ==
  { <<ItemLost, ItemUp>>, <<ItemPerson, ItemLost, ItemNoType>>, <<ItemNoPoster, ItemUp>> }

\* The filters a discovery request may name, and defaultMediaType for each (the
\* empty string for null).
Filters == {"trending", "popular_tv"}

defaultMediaType(filter) == IF filter = "popular_tv" THEN "tv" ELSE ""

\* The imdb_id an external_ids lookup may answer with; the empty text is "none".
CatalogImdbIds == {<<>>, <<"t","t","1">>}

\* `https://www.imdb.com/title/${imdbId}/`
ImdbTitleUrl(imdbId) ==
  <<"h","t","t","p","s",":","/","/","w","w","w",".","i","m","d","b",".","c","o","m",
    "/","t","i","t","l","e","/">> \o imdbId \o <<"/">>

Upper ==
  <<"A","B","C","D","E","F","G","H","I","J","K","L","M",
    "N","O","P","Q","R","S","T","U","V","W","X","Y","Z">>

Lower ==
  <<"a","b","c","d","e","f","g","h","i","j","k","l","m",
    "n","o","p","q","r","s","t","u","v","w","x","y","z">>

\* String.prototype.toLowerCase
toLowerCase(s) ==
  [i \in 1..Len(s) |->
     IF \E k \in 1..Len(Upper) : Upper[k] = s[i]
     THEN Lower[CHOOSE k \in 1..Len(Upper) : Upper[k] = s[i]]
     ELSE s[i]]

\* responses.flatMap(response => response.data.results)
RECURSIVE allResults(_)
allResults(responses) ==
  IF responses = <<>> THEN <<>> ELSE Head(responses) \o allResults(Tail(responses))

RECURSIVE uniqueResults(_, _)
\* The deduplication as it would be without the set of seen ids.
keepAll(items, seenIds) == items

\* The loop over allResults that keeps an item when its id is not in seenIds.
uniqueResults(items, seenIds) ==
  IF items = <<>> THEN <<>>
  ELSE IF Head(items).id \in seenIds THEN uniqueResults(Tail(items), seenIds)
  ELSE <<Head(items)>> \o uniqueResults(Tail(items), seenIds \cup {Head(items).id})

\* The map callback: null (here the empty sequence) for an item that is neither a
\* movie nor a series, else the item as the endpoint returns it.
MapItem(item, default) ==
  LET mediaType == IF item.media_type # "" THEN item.media_type ELSE default
  IN  IF mediaType # "movie" /\ mediaType # "tv" THEN <<>>
      ELSE <<[id |-> item.id,
              title |-> IF mediaType = "movie" THEN item.title ELSE item.name,
              type |-> IF mediaType = "movie" THEN "movie" ELSE "tv_show",
              poster_path |-> item.poster_path]>>

\* .map(...).filter(item => item !== null && item.poster_path)
RECURSIVE MapAndFilter(_, _)
MapAndFilter(items, default) ==
  IF items = <<>> THEN <<>>
  ELSE LET m == MapItem(Head(items), default)
       IN  (IF m # <<>> /\ m[1].poster_path # "" THEN m ELSE <<>>)
           \o MapAndFilter(Tail(items), default)

\* The list the endpoint answers with, from the responses in page order.
DiscoverResults(responses, default) ==
  MapAndFilter(uniqueResults(allResults(responses), {}), default)

\* fetchDiscover in the browser: the items whose title, in lower case, is not the
\* lower-case title of an item of allMedia.
RECURSIVE Formatted(_, _)
Formatted(data, allMedia) ==
  IF data = <<>> THEN <<>>
  ELSE (IF \E m \in allMedia : toLowerCase(m.title) = toLowerCase(Head(data).title)
        THEN <<>> ELSE <<Head(data)>>)
       \o Formatted(Tail(data), allMedia)

(***************************************************************************)
(* Storage.  db holds the committed rows of the tables initDb creates; seq *)
(* the last value each SERIAL sequence gave out (a sequence is not rolled  *)
(* back).  tx[p] is the transaction of request p's client: the rows it     *)
(* inserted, the ids of the committed rows it deleted and its update of a  *)
(* media row's epguides_url, none of which another client sees before      *)
(* COMMIT (PostgreSQL's default READ COMMITTED).                           *)
(***************************************************************************)
EmptyTables ==
  [media |-> {}, genres |-> {}, actors |-> {}, media_genres |-> {},
   media_actors |-> {}, seasons |-> {}, episodes |-> {}]

EmptyTx ==
  [st |-> "idle", ins |-> EmptyTables, delSeasons |-> {}, delEpisodes |-> {},
   updUrl |-> {}]

\* The media row m after the updates of transaction t.
Updated(t, m) ==
  IF \E u \in t.updUrl : u.id = m.id
  THEN [m EXCEPT !.epguides_url = (CHOOSE u \in t.updUrl : u.id = m.id).url]
  ELSE m

\* The tables as a statement of transaction t sees them over the committed d; with
\* t = tx[p] after COMMIT, they are the committed tables.
Apply(d, t) ==
  [media |-> {Updated(t, m) : m \in d.media} \cup t.ins.media,
   genres |-> d.genres \cup t.ins.genres,
   actors |-> d.actors \cup t.ins.actors,
   media_genres |-> d.media_genres \cup t.ins.media_genres,
   media_actors |-> d.media_actors \cup t.ins.media_actors,
   seasons |-> {x \in d.seasons : x.id \notin t.delSeasons} \cup t.ins.seasons,
   episodes |-> {x \in d.episodes : x.id \notin t.delEpisodes} \cup t.ins.episodes]

View(p) == Apply(db, tx[p])

\* COMMIT: an open transaction's changes become the committed rows; the COMMIT of
\* a transaction in which a statement has failed ends it as ROLLBACK does.
Commit(d, t) == IF t.st = "open" THEN Apply(d, t) ELSE d

\* ROLLBACK as it would be if the transaction's DELETEs were not part of it.
RollbackKeepsDeletes(d, t) ==
  [d EXCEPT !.seasons = {x \in @ : x.id \notin t.delSeasons},
            !.episodes = {x \in @ : x.id \notin t.delEpisodes}]

\* ROLLBACK as it would be if the transaction's INSERTs were not part of it.
RollbackKeepsInserts(d, t) ==
  [table \in DOMAIN d |-> d[table] \cup t.ins[table]]

\* ROLLBACK: the committed rows stay as they are.
Rollback(d, t) == d

\* The transactions of the other clients that have not ended.
Others(p) == {q \in Procs \ {p} : tx[q].st # "idle"}

\* The seasons of a media item, and the episodes of a set of seasons, in tables v.
SeasonsOf(v, mediaId) == {x \in v.seasons : x.media_id = mediaId}

EpisodesOf(v, ss) == {e \in v.episodes : \E x \in ss : x.id = e.season_id}

\* The episode tree of a media item in tables v, without the generated ids: its
\* seasons, and its episodes with the number of the season that owns each.
Tree(v, mediaId) ==
  [seasons |-> {[season_number |-> x.season_number, year |-> x.year,
                 is_watched |-> x.is_watched] : x \in SeasonsOf(v, mediaId)},
   episodes |-> {[season_number |-> (CHOOSE x \in v.seasons : x.id = e.season_id).season_number,
                  episode_number |-> e.episode_number, title |-> e.title,
                  air_date |-> e.air_date, is_watched |-> e.is_watched] :
                    e \in EpisodesOf(v, SeasonsOf(v, mediaId))}]

(***************************************************************************)
(* A request in flight: the handler's position and its local variables.    *)
(* status and body are the response; pre is the committed store when the   *)
(* request arrived (kept to state what the request changed); fetches counts *)
(* the requests the handler has sent to the sources (axios.get).            *)
(***************************************************************************)
NoMap == <<>>

IdleReq ==
  [pc |-> "idle", kind |-> "none", imdbUrl |-> <<>>, id |-> 0, customUrl |-> <<>>,
   imdbId |-> <<>>, title |-> <<>>, mediaType |-> "none", genres |-> <<>>,
   actors |-> <<>>, newMedia |-> 0, i |-> 0, lookupId |-> 0,
   epguides_url |-> <<>>, epguidesShowUrl |-> <<>>, fetched |-> FALSE, rows |-> <<>>,
   currentSeason |-> 0, seasonsMap |-> NoMap, watchedEpisodes |-> {},
   status |-> 0, body |-> 0, pre |-> EmptyTables, fetches |-> 0,
   is_watched |-> FALSE, tmdbId |-> 0, tmdbRes |-> "unasked", filter |-> "",
   numPages |-> 0, pending |-> {}, responses |-> <<>>, results |-> <<>>,
   allMedia |-> {}, formatted |-> <<>>]

Init ==
  /\ db = EmptyTables
  /\ seq = [media |-> 0, genres |-> 0, actors |-> 0, seasons |-> 0, episodes |-> 0]
  /\ tx = [p \in Procs |-> EmptyTx]
  /\ req = [p \in Procs |-> IdleReq]
  /\ held = {}
  /\ nreq = 0
  /\ TMDB_API_KEY = TRUE
  /\ groupedMedia = {}
  /\ call = [fn |-> "none", arg |-> <<>>, result |-> <<>>]

Free(p) == req[p].pc \in {"idle", "done"}

\* The response as it would be sent by a handler with no finally block.
RespondKeepsClient(p, r, status, body) ==
  /\ req' = [req EXCEPT ![p] = [r EXCEPT !.pc = "done", !.status = status, !.body = body]]
  /\ held' = held

\* The response is sent and the handler's finally block releases the client.
Respond(p, r, status, body) ==
  /\ req' = [req EXCEPT ![p] = [r EXCEPT !.pc = "done", !.status = status, !.body = body]]
  /\ held' = held \ {p}

\* The handler with locals r has sent one more request to a source.
Sent(r) == [r EXCEPT !.fetches = @ + 1]

\* The catch block of both handlers, reached with locals r: ROLLBACK, then 500.
FailedWith(p, r) ==
  /\ db' = Rollback(db, tx[p])
  /\ tx' = [tx EXCEPT ![p] = EmptyTx]
  /\ Respond(p, r, 500, 0)

Failed(p) == FailedWith(p, req[p])

(***************************************************************************)
(* Statements shared by the two handlers.                                  *)
(***************************************************************************)
\* The season index as it would be if its lookups never hit.
SeasonNeverKnown(seasonsMap, seasonForEpisode) == FALSE

\* seasonsMap.get(seasonForEpisode) gave an id: the season of that number was
\* inserted by an earlier row of this pass (ids start at 1, so none is falsy).
SeasonKnown(seasonsMap, seasonForEpisode) == seasonForEpisode \in DOMAIN seasonsMap

\* The key as it would be if the index were kept by the header's season.
seasonKeyIsCurrentSeason(r) == r.currentSeason

\* The key under which seasonsMap holds the season of row r: seasonForEpisode.
seasonKey(r) == r.seasonForEpisode

\* The INSERTs as they would be if the season took the watched flag of its first
\* episode.
InsertRowSeasonAsEpisode(d, t, sq, seasonsMap, mediaId, r, isWatched) ==
  LET known == SeasonKnown(seasonsMap, seasonKey(r))
      seasonId == IF known THEN seasonsMap[seasonKey(r)] ELSE sq.seasons + 1
      year == yearForSeason(r.airDate)
      seasonFails ==
        /\ ~known
        /\ \/ year = NaN
           \/ \E x \in SeasonsOf(Apply(d, t), mediaId) :
                x.season_number = r.seasonForEpisode
      episodeFails == r.airDate = InvalidDate
      newSeasons ==
        IF known THEN {}
        ELSE {[id |-> seasonId, media_id |-> mediaId,
               season_number |-> r.seasonForEpisode, year |-> year,
               is_watched |-> isWatched]}
      newEpisode ==
        [id |-> sq.episodes + 1, season_id |-> seasonId,
         episode_number |-> r.episodeInSeason, title |-> r.titleFromFile,
         air_date |-> r.airDate, is_watched |-> isWatched]
  IN  [ok |-> ~seasonFails /\ ~episodeFails,
       seq |-> [sq EXCEPT !.seasons = IF known THEN @ ELSE @ + 1,
                          !.episodes = IF seasonFails THEN @ ELSE @ + 1],
       seasonsMap |-> IF known \/ seasonFails THEN seasonsMap
                      ELSE (seasonKey(r) :> seasonId) @@ seasonsMap,
       tx |-> IF seasonFails \/ episodeFails THEN t
              ELSE [t EXCEPT !.ins.seasons = @ \cup newSeasons,
                             !.ins.episodes = @ \cup {newEpisode}]]

\* The INSERTs of one accepted guide row r for media item mediaId, run in
\* transaction t with season index seasonsMap: the season, on the first row that
\* refers to its number, then the episode.  ok is false when a statement fails
\* (a season of that number already visible to the transaction, a year of NaN,
\* or an air date that is no date); the sequences advance all the same.
InsertRow(d, t, sq, seasonsMap, mediaId, r, isWatched) ==
  LET known == SeasonKnown(seasonsMap, seasonKey(r))
      seasonId == IF known THEN seasonsMap[seasonKey(r)] ELSE sq.seasons + 1
      year == yearForSeason(r.airDate)
      seasonFails ==
        /\ ~known
        /\ \/ year = NaN
           \/ \E x \in SeasonsOf(Apply(d, t), mediaId) :
                x.season_number = r.seasonForEpisode
      episodeFails == r.airDate = InvalidDate
      newSeasons ==
        IF known THEN {}
        ELSE {[id |-> seasonId, media_id |-> mediaId,
               season_number |-> r.seasonForEpisode, year |-> year,
               is_watched |-> FALSE]}
      newEpisode ==
        [id |-> sq.episodes + 1, season_id |-> seasonId,
         episode_number |-> r.episodeInSeason, title |-> r.titleFromFile,
         air_date |-> r.airDate, is_watched |-> isWatched]
  IN  [ok |-> ~seasonFails /\ ~episodeFails,
       seq |-> [sq EXCEPT !.seasons = IF known THEN @ ELSE @ + 1,
                          !.episodes = IF seasonFails THEN @ ELSE @ + 1],
       seasonsMap |-> IF known \/ seasonFails THEN seasonsMap
                      ELSE (seasonKey(r) :> seasonId) @@ seasonsMap,
       tx |-> IF seasonFails \/ episodeFails THEN t
              ELSE [t EXCEPT !.ins.seasons = @ \cup newSeasons,
                             !.ins.episodes = @ \cup {newEpisode}]]

\* The INSERT of a season waits while another client's unfinished transaction
\* holds a season of the same media item and number.
SeasonInsertWaits(p, mediaId, r) ==
  /\ r.accept
  /\ \E q \in Others(p) : \E x \in tx[q].ins.seasons :
       x.media_id = mediaId /\ x.season_number = r.seasonForEpisode

(***************************************************************************)
(* POST /api/media                                                         *)
(***************************************************************************)
\* The handler's position after the statement just run: past the end of the genre
\* and actor lists, past an actor whose name is empty, past the last guide row.
RECURSIVE Advance(_)
\* The position as it would be if the guide were fetched for every kind of item.
AdvanceToGuideAlways(r) ==
  IF r.pc = "am_genre_select" /\ r.i > Len(r.genres)
  THEN Advance([r EXCEPT !.pc = "am_actor_select", !.i = 1])
  ELSE IF r.pc = "am_actor_select" /\ r.i > Len(r.actors)
  THEN [r EXCEPT !.pc = "am_guide"]
  ELSE IF r.pc = "am_actor_select" /\ r.actors[r.i] = ""
  THEN Advance([r EXCEPT !.i = @ + 1])
  ELSE IF r.pc = "am_rows" /\ r.i > Len(r.rows) THEN [r EXCEPT !.pc = "am_commit"]
  ELSE IF r.pc = "rs_rows" /\ r.i > Len(r.rows) THEN [r EXCEPT !.pc = "rs_commit"]
  ELSE r

Advance(r) ==
  IF r.pc = "am_genre_select" /\ r.i > Len(r.genres)
  THEN Advance([r EXCEPT !.pc = "am_actor_select", !.i = 1])
  ELSE IF r.pc = "am_actor_select" /\ r.i > Len(r.actors)
  THEN [r EXCEPT !.pc = IF r.mediaType = "tv_show" THEN "am_guide" ELSE "am_commit"]
  ELSE IF r.pc = "am_actor_select" /\ r.actors[r.i] = ""
  THEN Advance([r EXCEPT !.i = @ + 1])
  ELSE IF r.pc = "am_rows" /\ r.i > Len(r.rows) THEN [r EXCEPT !.pc = "am_commit"]
  ELSE IF r.pc = "rs_rows" /\ r.i > Len(r.rows) THEN [r EXCEPT !.pc = "rs_commit"]
  ELSE r

\* The request arrives with its imdbUrl; with none it is answered 400, else a
\* client is taken from the pool.
AddMediaStart(p, imdbUrl) ==
  /\ Free(p)
  /\ nreq' = nreq + 1
  /\ UNCHANGED outside
  /\ IF imdbUrl = <<>>
     THEN Respond(p, [IdleReq EXCEPT !.kind = "add", !.pre = db], 400, 0)
     ELSE /\ req' = [req EXCEPT ![p] = [IdleReq EXCEPT !.kind = "add", !.pc = "am_select",
                                                      !.imdbUrl = imdbUrl, !.pre = db]]
          /\ held' = held \cup {p}
  /\ UNCHANGED <<db, seq, tx>>

\* The identifier is cut from the URL and looked up.
AddMediaSelect(p) ==
  /\ req[p].pc = "am_select"
  /\ LET m == imdbIdMatch(req[p].imdbUrl)
         existingMedia == {x \in db.media : x.imdb_id = m[1]}
     IN  IF m = NoMatch THEN Respond(p, req[p], 400, 0)
         ELSE IF existingMedia # {}
         THEN Respond(p, req[p], 409, (CHOOSE x \in existingMedia : TRUE).id)
         ELSE /\ req' = [req EXCEPT ![p].pc = "am_fetch", ![p].imdbId = m[1]]
              /\ UNCHANGED held
  /\ UNCHANGED <<db, seq, tx, nreq, outside>>

\* The primary-source page is fetched and scraped; then BEGIN.
AddMediaFetch(p) ==
  /\ req[p].pc = "am_fetch"
  /\ \/ FailedWith(p, Sent(req[p]))
     \/ \E page \in Pages :
          IF ExtractTitle(page) = <<>>
          THEN FailedWith(p, Sent(req[p]))
          ELSE /\ req' = [req EXCEPT ![p] =
                            [Sent(@) EXCEPT !.pc = "am_insert", !.title = ExtractTitle(page),
                                      !.mediaType = MediaTypeOf(page),
                                      !.genres = page.genres, !.actors = page.actors]]
               /\ tx' = [tx EXCEPT ![p].st = "open"]
               /\ UNCHANGED <<db, held>>
  /\ UNCHANGED <<seq, nreq, outside>>

\* INSERT INTO media.  imdb_id is UNIQUE: the statement waits for another
\* client's unfinished insert of the same imdb_id, and fails if a row with it is
\* visible; the catch block then rolls back and answers 500.
AddMediaInsert(p) ==
  /\ req[p].pc = "am_insert"
  /\ ~\E q \in Others(p) : \E x \in tx[q].ins.media : x.imdb_id = req[p].imdbId
  /\ seq' = [seq EXCEPT !.media = @ + 1]
  /\ IF \E x \in View(p).media : x.imdb_id = req[p].imdbId
     THEN Failed(p)
     ELSE /\ tx' = [tx EXCEPT ![p].ins.media = @ \cup
                      {[id |-> seq.media + 1, imdb_id |-> req[p].imdbId,
                        title |-> req[p].title, type |-> req[p].mediaType,
                        epguides_url |-> <<>>]}]
          /\ req' = [req EXCEPT ![p] =
                       Advance([@ EXCEPT !.pc = "am_genre_select", !.i = 1,
                                         !.newMedia = seq.media + 1])]
          /\ UNCHANGED <<db, held>>
  /\ UNCHANGED <<nreq, outside>>

\* SELECT id FROM <table> WHERE name = $1, for the i-th name of the list.
LookupName(p, pcHere, pcNext, table, names) ==
  /\ req[p].pc = pcHere
  /\ LET found == {g \in View(p)[table] : g.name = names[req[p].i]}
     IN  req' = [req EXCEPT ![p].pc = pcNext,
                            ![p].lookupId = IF found = {} THEN 0
                                            ELSE (CHOOSE g \in found : TRUE).id]
  /\ UNCHANGED <<db, seq, tx, held, nreq, outside>>

\* INSERT INTO <table> (name) when the lookup found no row, then INSERT INTO
\* <links> (media_id, <ref>_id).  name is UNIQUE and (media_id, <ref>_id) is the
\* primary key of the link table: a statement that breaks either fails, and the
\* catch block rolls back and answers 500.
LinkName(p, pcHere, pcNext, table, links, names) ==
  /\ req[p].pc = pcHere
  /\ LET name == names[req[p].i]
         absent == req[p].lookupId = 0
         refId == IF absent THEN seq[table] + 1 ELSE req[p].lookupId
         link == [media_id |-> req[p].newMedia, ref_id |-> refId]
         fails == \/ absent /\ \E g \in View(p)[table] : g.name = name
                  \/ link \in View(p)[links]
     IN  /\ ~(absent /\ \E q \in Others(p) : \E g \in tx[q].ins[table] : g.name = name)
         /\ seq' = [seq EXCEPT ![table] = IF absent THEN @ + 1 ELSE @]
         /\ IF fails
            THEN Failed(p)
            ELSE /\ tx' = [tx EXCEPT
                             ![p].ins[table] = IF absent
                                               THEN @ \cup {[id |-> refId, name |-> name]}
                                               ELSE @,
                             ![p].ins[links] = @ \cup {link}]
                 /\ req' = [req EXCEPT ![p] =
                              Advance([@ EXCEPT !.pc = pcNext, !.i = @ + 1])]
                 /\ UNCHANGED <<db, held>>
  /\ UNCHANGED <<nreq, outside>>

AddMediaGenreSelect(p) ==
  LookupName(p, "am_genre_select", "am_genre_link", "genres", req[p].genres)

AddMediaGenreLink(p) ==
  LinkName(p, "am_genre_link", "am_genre_select", "genres", "media_genres", req[p].genres)

AddMediaActorSelect(p) ==
  LookupName(p, "am_actor_select", "am_actor_link", "actors", req[p].actors)

AddMediaActorLink(p) ==
  LinkName(p, "am_actor_link", "am_actor_select", "actors", "media_actors", req[p].actors)

\* The episode guide of a series is fetched.  A failed fetch is caught inside the
\* handler, which goes on to COMMIT.
AddMediaGuideOf(p, documents) ==
  /\ req[p].pc = "am_guide"
  /\ \/ req' = [req EXCEPT ![p].pc = "am_commit", ![p].fetches = @ + 1,
                           ![p].epguidesShowUrl = getEpguidesShowUrl(req[p].title)]
     \/ \E g \in documents :
          req' = [req EXCEPT ![p] =
                    Advance([Sent(@) EXCEPT !.pc = "am_rows", !.i = 1, !.rows = g,
                                      !.fetched = TRUE, !.currentSeason = 0,
                                      !.seasonsMap = NoMap,
                                      !.epguidesShowUrl = getEpguidesShowUrl(req[p].title)])]
  /\ UNCHANGED <<db, seq, tx, held, nreq, outside>>

AddMediaGuide(p) == AddMediaGuideOf(p, Guides)

\* One row of the guide.  A failed INSERT is caught inside the handler, which goes
\* on to COMMIT; the transaction is then one in which a statement has failed.
AddMediaRow(p) ==
  /\ req[p].pc = "am_rows"
  /\ \E r \in {ParseRow(req[p].currentSeason, req[p].rows[req[p].i])} :
     \E ins \in {InsertRow(db, tx[p], seq, req[p].seasonsMap, req[p].newMedia, r, FALSE)} :
         /\ ~SeasonInsertWaits(p, req[p].newMedia, r)
         /\ IF ~r.accept
            THEN /\ req' = [req EXCEPT ![p] =
                              Advance([@ EXCEPT !.i = @ + 1,
                                                !.currentSeason = r.currentSeason])]
                 /\ UNCHANGED <<seq, tx>>
            ELSE /\ seq' = ins.seq
                 /\ IF ins.ok
                    THEN /\ tx' = [tx EXCEPT ![p] = ins.tx]
                         /\ req' = [req EXCEPT ![p] =
                                      Advance([@ EXCEPT !.i = @ + 1,
                                                        !.seasonsMap = ins.seasonsMap])]
                    ELSE /\ tx' = [tx EXCEPT ![p].st = "aborted"]
                         /\ req' = [req EXCEPT ![p].pc = "am_commit"]
  /\ UNCHANGED <<db, held, nreq, outside>>

\* COMMIT, then 201 with the row INSERT INTO media returned.
AddMediaCommit(p) ==
  /\ req[p].pc = "am_commit"
  /\ db' = Commit(db, tx[p])
  /\ tx' = [tx EXCEPT ![p] = EmptyTx]
  /\ Respond(p, req[p], 201, req[p].newMedia)
  /\ UNCHANGED <<seq, nreq, outside>>

(***************************************************************************)
(* POST /api/media/:id/rescrape                                            *)
(***************************************************************************)
\* The request arrives with a media id and, possibly, an epguidesUrl; a client is
\* taken from the pool.
RescrapeStart(p, id, customUrl) ==
  /\ Free(p)
  /\ nreq' = nreq + 1
  /\ UNCHANGED outside
  /\ req' = [req EXCEPT ![p] = [IdleReq EXCEPT !.kind = "rescrape", !.pc = "rs_select",
                                               !.id = id, !.customUrl = customUrl,
                                               !.pre = db]]
  /\ held' = held \cup {p}
  /\ UNCHANGED <<db, seq, tx>>

\* The guards as they would be if BEGIN came before them.
RescrapeSelectAfterBegin(p) ==
  /\ req[p].pc = "rs_select"
  /\ LET found == {m \in db.media : m.id = req[p].id}
         media == CHOOSE m \in found : TRUE
     IN  IF found = {} THEN Respond(p, req[p], 404, 0)
         ELSE IF media.type # "tv_show" THEN Respond(p, req[p], 400, 0)
         ELSE /\ req' = [req EXCEPT ![p].pc = "rs_url", ![p].title = media.title,
                                    ![p].epguides_url = media.epguides_url]
              /\ UNCHANGED held
  /\ tx' = [tx EXCEPT ![p].st = "open"]
  /\ UNCHANGED <<db, seq, nreq, outside>>

\* SELECT * FROM media WHERE id = $1; 404 without a row, 400 for a movie; else BEGIN.
RescrapeSelect(p) ==
  /\ req[p].pc = "rs_select"
  /\ LET found == {m \in db.media : m.id = req[p].id}
         media == CHOOSE m \in found : TRUE
     IN  IF found = {} THEN Respond(p, req[p], 404, 0) /\ UNCHANGED tx
         ELSE IF media.type # "tv_show" THEN Respond(p, req[p], 400, 0) /\ UNCHANGED tx
         ELSE /\ req' = [req EXCEPT ![p].pc = "rs_url", ![p].title = media.title,
                                    ![p].epguides_url = media.epguides_url]
              /\ tx' = [tx EXCEPT ![p].st = "open"]
              /\ UNCHANGED held
  /\ UNCHANGED <<db, seq, nreq, outside>>

\* The choice as it would be if the stored URL came before the request's.
RescrapeUrlStoredFirst(p) ==
  /\ req[p].pc = "rs_url"
  /\ LET given == IF req[p].epguides_url # <<>> THEN req[p].epguides_url
                  ELSE req[p].customUrl
         url == IF given = <<>> THEN getEpguidesShowUrl(req[p].title) ELSE given
         stores == given = <<>> \/ req[p].customUrl # <<>>
     IN  /\ ~(stores /\ \E q \in Others(p) : \E u \in tx[q].updUrl : u.id = req[p].id)
         /\ req' = [req EXCEPT ![p].pc = "rs_snapshot", ![p].epguidesShowUrl = url]
         /\ tx' = [tx EXCEPT ![p].updUrl =
                     IF stores THEN {[id |-> req[p].id, url |-> url]} ELSE @]
  /\ UNCHANGED <<db, seq, held, nreq, outside>>

\* customUrl || media.epguides_url, else the URL derived from the title; a derived
\* or a custom URL is stored with UPDATE media, which waits for another client's
\* unfinished update of the same row.
RescrapeUrl(p) ==
  /\ req[p].pc = "rs_url"
  /\ LET given == IF req[p].customUrl # <<>> THEN req[p].customUrl
                  ELSE req[p].epguides_url
         url == IF given = <<>> THEN getEpguidesShowUrl(req[p].title) ELSE given
         stores == given = <<>> \/ req[p].customUrl # <<>>
     IN  /\ ~(stores /\ \E q \in Others(p) : \E u \in tx[q].updUrl : u.id = req[p].id)
         /\ req' = [req EXCEPT ![p].pc = "rs_snapshot", ![p].epguidesShowUrl = url]
         /\ tx' = [tx EXCEPT ![p].updUrl =
                     IF stores THEN {[id |-> req[p].id, url |-> url]} ELSE @]
  /\ UNCHANGED <<db, seq, held, nreq, outside>>

\* The keys `${season_number}-${episode_number}` of the watched episodes; a key is
\* modelled as the pair of its two numbers, which the text determines.
WatchedKeys(v, mediaId) ==
  {<<x.season_number, e.episode_number>> :
     <<x, e>> \in {y \in SeasonsOf(v, mediaId) \X v.episodes :
                     y[2].season_id = y[1].id /\ y[2].is_watched}}

RescrapeSnapshot(p) ==
  /\ req[p].pc = "rs_snapshot"
  /\ req' = [req EXCEPT ![p].pc = "rs_delete_episodes",
                        ![p].watchedEpisodes = WatchedKeys(View(p), req[p].id)]
  /\ UNCHANGED <<db, seq, tx, held, nreq, outside>>

\* The rows another client's unfinished transaction has deleted: a statement that
\* is to delete or update one of them waits.
LockedSeasons(p) == UNION {tx[q].delSeasons : q \in Others(p)}

LockedEpisodes(p) == UNION {tx[q].delEpisodes : q \in Others(p)}

\* DELETE FROM episodes WHERE season_id IN (SELECT id FROM seasons WHERE media_id = $1)
RescrapeDeleteEpisodes(p) ==
  /\ req[p].pc = "rs_delete_episodes"
  /\ LET gone == {e.id : e \in EpisodesOf(View(p), SeasonsOf(View(p), req[p].id))}
     IN  /\ gone \cap LockedEpisodes(p) = {}
         /\ tx' = [tx EXCEPT ![p].delEpisodes = @ \cup gone]
  /\ req' = [req EXCEPT ![p].pc = "rs_delete_seasons"]
  /\ UNCHANGED <<db, seq, held, nreq, outside>>

\* The DELETE FROM seasons as it would be if it matched no row.
NoSeasonsToDelete(v, mediaId) == {}

\* The rows DELETE FROM seasons WHERE media_id = $1 removes.
SeasonsToDelete(v, mediaId) == SeasonsOf(v, mediaId)

\* DELETE FROM seasons WHERE media_id = $1; episodes.season_id is declared ON
\* DELETE CASCADE, so the episodes of a deleted season go with it.
RescrapeDeleteSeasons(p) ==
  /\ req[p].pc = "rs_delete_seasons"
  /\ LET ss == SeasonsToDelete(View(p), req[p].id)
         gone == {x.id : x \in ss}
         cascade == {e.id : e \in EpisodesOf(View(p), ss)}
     IN  /\ gone \cap LockedSeasons(p) = {}
         /\ cascade \cap LockedEpisodes(p) = {}
         /\ tx' = [tx EXCEPT ![p].delSeasons = @ \cup gone,
                             ![p].delEpisodes = @ \cup cascade]
  /\ req' = [req EXCEPT ![p].pc = "rs_fetch"]
  /\ UNCHANGED <<db, seq, held, nreq, outside>>

\* The episode guide is fetched; a failed fetch is thrown to the catch block:
\* ROLLBACK and 500.
RescrapeFetch(p) ==
  /\ req[p].pc = "rs_fetch"
  /\ \/ FailedWith(p, Sent(req[p]))
     \/ /\ \E g \in Guides :
             req' = [req EXCEPT ![p] =
                       Advance([Sent(@) EXCEPT !.pc = "rs_rows", !.i = 1, !.rows = g,
                                         !.fetched = TRUE, !.currentSeason = 0,
                                         !.seasonsMap = NoMap])]
        /\ UNCHANGED <<db, tx, held>>
  /\ UNCHANGED <<seq, nreq, outside>>

\* The lookup as it would be if the key left the season number out.
isWatchedInAnySeason(watchedEpisodes, r) ==
  \E k \in watchedEpisodes : k[2] = r.episodeInSeason

\* watchedEpisodes.has(`${seasonForEpisode}-${episodeInSeason}`)
isWatched(watchedEpisodes, r) ==
  <<r.seasonForEpisode, r.episodeInSeason>> \in watchedEpisodes

\* One row of the guide.  A failed INSERT is thrown to the catch block: ROLLBACK
\* and 500.
RescrapeRow(p) ==
  /\ req[p].pc = "rs_rows"
  /\ \E r \in {ParseRow(req[p].currentSeason, req[p].rows[req[p].i])} :
     \E ins \in {InsertRow(db, tx[p], seq, req[p].seasonsMap, req[p].id, r,
                            isWatched(req[p].watchedEpisodes, r))} :
         /\ ~SeasonInsertWaits(p, req[p].id, r)
         /\ IF ~r.accept
            THEN /\ req' = [req EXCEPT ![p] =
                              Advance([@ EXCEPT !.i = @ + 1,
                                                !.currentSeason = r.currentSeason])]
                 /\ UNCHANGED <<db, seq, tx, held>>
            ELSE /\ seq' = ins.seq
                 /\ IF ins.ok
                    THEN /\ tx' = [tx EXCEPT ![p] = ins.tx]
                         /\ req' = [req EXCEPT ![p] =
                                      Advance([@ EXCEPT !.i = @ + 1,
                                                        !.seasonsMap = ins.seasonsMap])]
                         /\ UNCHANGED <<db, held>>
                    ELSE Failed(p)
  /\ UNCHANGED <<nreq, outside>>

\* COMMIT, then 204.
RescrapeCommit(p) ==
  /\ req[p].pc = "rs_commit"
  /\ db' = Commit(db, tx[p])
  /\ tx' = [tx EXCEPT ![p] = EmptyTx]
  /\ Respond(p, req[p], 204, 0)
  /\ UNCHANGED <<seq, nreq, outside>>

(***************************************************************************)
(* POST /api/episodes/:id/watched: one UPDATE through the pool, which      *)
(* waits while another client's unfinished transaction has deleted the row.*)
(***************************************************************************)
EpisodeWatched(id, is_watched) ==
  /\ nreq' = nreq + 1
  /\ UNCHANGED outside
  /\ \E e \in db.episodes : e.id = id
  /\ id \notin UNION {tx[q].delEpisodes : q \in Procs}
  /\ db' = [db EXCEPT !.episodes =
              {IF e.id = id THEN [e EXCEPT !.is_watched = is_watched] ELSE e : e \in @}]
  /\ UNCHANGED <<seq, tx, req, held>>

(***************************************************************************)
(* POST /api/seasons/:id/watched: a client of its own, BEGIN, two UPDATEs, *)
(* COMMIT.  An UPDATE writes a new version of each row it matches: in the  *)
(* transaction the old version is among the rows deleted and the new one   *)
(* among the rows inserted, under the same id.                             *)
(***************************************************************************)
SeasonWatchedStart(p, id, is_watched) ==
  /\ Free(p)
  /\ nreq' = nreq + 1
  /\ UNCHANGED outside
  /\ req' = [req EXCEPT ![p] = [IdleReq EXCEPT !.kind = "season_watched",
                                               !.pc = "sw_season", !.id = id,
                                               !.is_watched = is_watched, !.pre = db]]
  /\ held' = held \cup {p}
  /\ tx' = [tx EXCEPT ![p].st = "open"]
  /\ UNCHANGED <<db, seq>>

\* The UPDATE of episodes as it would be with no WHERE clause.
EpisodesOfAnySeason(v, id) == v.episodes

\* The rows UPDATE episodes ... WHERE season_id = $2 matches.
EpisodesToMark(v, id) == {e \in v.episodes : e.season_id = id}

\* UPDATE seasons SET is_watched = $1 WHERE id = $2; a failure is thrown to the
\* catch block: ROLLBACK, then 500.
SeasonWatchedSeason(p) ==
  /\ req[p].pc = "sw_season"
  /\ \/ Failed(p)
     \/ LET rows == {x \in View(p).seasons : x.id = req[p].id}
        IN  /\ {x.id : x \in rows} \cap LockedSeasons(p) = {}
            /\ tx' = [tx EXCEPT
                        ![p].delSeasons = @ \cup {x.id : x \in rows},
                        ![p].ins.seasons =
                          @ \cup {[x EXCEPT !.is_watched = req[p].is_watched] : x \in rows}]
            /\ req' = [req EXCEPT ![p].pc = "sw_episodes"]
            /\ UNCHANGED <<db, held>>
  /\ UNCHANGED <<seq, nreq, outside>>

\* UPDATE episodes SET is_watched = $1 WHERE season_id = $2
SeasonWatchedEpisodes(p) ==
  /\ req[p].pc = "sw_episodes"
  /\ \/ Failed(p)
     \/ LET rows == EpisodesToMark(View(p), req[p].id)
        IN  /\ {e.id : e \in rows} \cap LockedEpisodes(p) = {}
            /\ tx' = [tx EXCEPT
                        ![p].delEpisodes = @ \cup {e.id : e \in rows},
                        ![p].ins.episodes =
                          @ \cup {[e EXCEPT !.is_watched = req[p].is_watched] : e \in rows}]
            /\ req' = [req EXCEPT ![p].pc = "sw_commit"]
            /\ UNCHANGED <<db, held>>
  /\ UNCHANGED <<seq, nreq, outside>>

\* COMMIT, then 204.
SeasonWatchedCommit(p) ==
  /\ req[p].pc = "sw_commit"
  /\ db' = Commit(db, tx[p])
  /\ tx' = [tx EXCEPT ![p] = EmptyTx]
  /\ Respond(p, req[p], 204, 0)
  /\ UNCHANGED <<seq, nreq, outside>>

(***************************************************************************)
(* DELETE /api/media/:id: one DELETE through the pool.  The link, season   *)
(* and episode tables are declared ON DELETE CASCADE.                      *)
(***************************************************************************)
\* The tables after the DELETE as they would be without the cascade.
AfterDeleteWithoutCascade(d, id) == [d EXCEPT !.media = {m \in @ : m.id # id}]

\* The tables after DELETE FROM media WHERE id = $1.
AfterDelete(d, id) ==
  [d EXCEPT !.media = {m \in @ : m.id # id},
            !.media_genres = {l \in @ : l.media_id # id},
            !.media_actors = {l \in @ : l.media_id # id},
            !.seasons = @ \ SeasonsOf(d, id),
            !.episodes = @ \ EpisodesOf(d, SeasonsOf(d, id))]

\* The statement waits while a re-sync of the item has not ended.
DeleteMedia(id) ==
  /\ nreq' = nreq + 1
  /\ UNCHANGED outside
  /\ \A q \in Procs : ~(tx[q].st # "idle" /\ req[q].id = id)
  /\ db' = AfterDelete(db, id)
  /\ UNCHANGED <<seq, tx, req, held>>

(***************************************************************************)
(* POST /api/media with (tmdbId, type): the identifier is looked up in the *)
(* catalog before the handler goes on as with an imdbUrl.                  *)
(***************************************************************************)
\* The request arrives with a tmdbId and a type; without a TMDB_API_KEY it is
\* answered 503.
AddMediaByCatalog(p, tmdbId, type) ==
  /\ Free(p)
  /\ nreq' = nreq + 1
  /\ UNCHANGED outside
  /\ IF ~TMDB_API_KEY
     THEN Respond(p, [IdleReq EXCEPT !.kind = "add", !.tmdbId = tmdbId, !.pre = db], 503, 0)
     ELSE /\ req' = [req EXCEPT ![p] = [IdleReq EXCEPT !.kind = "add", !.pc = "am_resolve",
                                                      !.tmdbId = tmdbId, !.pre = db]]
          /\ UNCHANGED held
  /\ UNCHANGED <<db, seq, tx>>

\* The lookup as it would be if an answer with no imdb_id were taken as an id.
AddMediaResolveAnyAnswer(p) ==
  /\ req[p].pc = "am_resolve"
  /\ \/ Respond(p, [Sent(req[p]) EXCEPT !.tmdbRes = "failed"], 500, 0)
     \/ \E imdbId \in CatalogImdbIds :
          /\ req' = [req EXCEPT ![p] =
                       [Sent(@) EXCEPT !.pc = "am_select",
                                       !.tmdbRes = IF imdbId = <<>> THEN "no_imdb_id"
                                                   ELSE "found",
                                       !.imdbUrl = ImdbTitleUrl(imdbId)]]
          /\ held' = held \cup {p}
  /\ UNCHANGED <<db, seq, tx, nreq, outside>>

\* GET .../external_ids: a failure is answered 500, an answer with no imdb_id 404;
\* else the URL is made of the imdb_id and a client is taken from the pool.
AddMediaResolve(p) ==
  /\ req[p].pc = "am_resolve"
  /\ \/ Respond(p, [Sent(req[p]) EXCEPT !.tmdbRes = "failed"], 500, 0)
     \/ \E imdbId \in CatalogImdbIds :
          IF imdbId = <<>>
          THEN Respond(p, [Sent(req[p]) EXCEPT !.tmdbRes = "no_imdb_id"], 404, 0)
          ELSE /\ req' = [req EXCEPT ![p] =
                            [Sent(@) EXCEPT !.pc = "am_select", !.tmdbRes = "found",
                                            !.imdbUrl = ImdbTitleUrl(imdbId)]]
               /\ held' = held \cup {p}
  /\ UNCHANGED <<db, seq, tx, nreq, outside>>

(***************************************************************************)
(* GET /api/recommendations/discover, called by fetchDiscover of the       *)
(* browser.  The page requests are all sent before the handler waits for   *)
(* them (Promise.all); pending holds the pages not yet answered.           *)
(***************************************************************************)
\* The library the browser shows is fetched anew (fetchMedia).
FetchMedia ==
  /\ groupedMedia' = {[id |-> m.id, title |-> m.title] : m \in db.media}
  /\ groupedMedia' # groupedMedia
  /\ UNCHANGED <<db, seq, tx, req, held, nreq, TMDB_API_KEY, call>>

\* The arrival as it would be without the guard on TMDB_API_KEY.
DiscoverStartUnguarded(p, filter, count) ==
  /\ Free(p)
  /\ nreq' = nreq + 1
  /\ UNCHANGED outside
  /\ req' = [req EXCEPT ![p] =
               [IdleReq EXCEPT !.kind = "discover", !.pc = "dc_wait",
                               !.filter = filter, !.numPages = count,
                               !.pending = 1..count, !.fetches = count,
                               !.allMedia = groupedMedia, !.pre = db]]
  /\ UNCHANGED <<db, seq, tx, held>>

\* The request arrives; without a TMDB_API_KEY it is answered 503, else the page
\* requests are sent.
DiscoverStart(p, filter, count) ==
  /\ Free(p)
  /\ nreq' = nreq + 1
  /\ UNCHANGED outside
  /\ IF ~TMDB_API_KEY
     THEN Respond(p, [IdleReq EXCEPT !.kind = "discover", !.filter = filter,
                                     !.allMedia = groupedMedia, !.pre = db], 503, 0)
     ELSE /\ req' = [req EXCEPT ![p] =
                       [IdleReq EXCEPT !.kind = "discover", !.pc = "dc_wait",
                                       !.filter = filter, !.numPages = count,
                                       !.pending = 1..count, !.fetches = count,
                                       !.allMedia = groupedMedia, !.pre = db]]
          /\ UNCHANGED held
  /\ UNCHANGED <<db, seq, tx>>

\* A page request is answered with a page; an answer that comes after the handler
\* has answered is dropped.
DiscoverPage(p) ==
  /\ req[p].kind = "discover"
  /\ \E i \in req[p].pending : \E page \in CatalogPages :
       req' = [req EXCEPT ![p].pending = @ \ {i},
                          ![p].responses = IF req[p].pc = "dc_wait"
                                           THEN (i :> page) @@ @ ELSE @]
  /\ UNCHANGED <<db, seq, tx, held, nreq, outside>>

\* The failure of a page request as it would be if the handler waited for every
\* request and answered with the pages it got (Promise.allSettled).
DiscoverPageFailsSettled(p) ==
  /\ req[p].kind = "discover"
  /\ \E i \in req[p].pending :
       req' = [req EXCEPT ![p].pending = @ \ {i},
                          ![p].responses = IF req[p].pc = "dc_wait"
                                           THEN (i :> <<>>) @@ @ ELSE @]
  /\ UNCHANGED <<db, seq, tx, held, nreq, outside>>

\* A page request fails: Promise.all rejects and the catch block answers 500; a
\* failure that comes after the handler has answered is dropped.
DiscoverPageFails(p) ==
  /\ req[p].kind = "discover"
  /\ \E i \in req[p].pending :
       IF req[p].pc = "dc_wait"
       THEN Respond(p, [req[p] EXCEPT !.pending = @ \ {i}], 500, 0)
       ELSE req' = [req EXCEPT ![p].pending = @ \ {i}] /\ UNCHANGED held
  /\ UNCHANGED <<db, seq, tx, nreq, outside>>

\* Every page request has been answered: Promise.all resolves with the responses
\* in page order and the list is answered (200) to the browser.
DiscoverJoin(p) ==
  /\ req[p].pc = "dc_wait"
  /\ req[p].pending = {}
  /\ req' = [req EXCEPT
               ![p].pc = "fd_format", ![p].status = 200,
               ![p].results =
                 DiscoverResults([i \in 1..req[p].numPages |-> req[p].responses[i]],
                                 defaultMediaType(req[p].filter))]
  /\ UNCHANGED <<db, seq, tx, held, nreq, outside>>

\* fetchDiscover makes its list of the answer.
FetchDiscoverFormat(p) ==
  /\ req[p].pc = "fd_format"
  /\ req' = [req EXCEPT ![p].pc = "done",
                        ![p].formatted = Formatted(req[p].results, req[p].allMedia)]
  /\ UNCHANGED <<db, seq, tx, held, nreq, outside>>

(***************************************************************************)
(* The specifications.  Spec takes the requests one after the other: a     *)
(* request arrives when no handler is running.  ConcSpec lets two handlers *)
(* run at once, their steps interleaved at the awaits.                     *)
(***************************************************************************)
Arrive(p) ==
  \/ \E imdbUrl \in ImdbUrls \cup {<<>>} : AddMediaStart(p, imdbUrl)
  \/ \E id \in 1..(seq.media + 1) : \E customUrl \in CustomUrls :
       RescrapeStart(p, id, customUrl)

Toggle ==
  \E e \in db.episodes : \E is_watched \in BOOLEAN : EpisodeWatched(e.id, is_watched)

Step(p) ==
  \/ AddMediaSelect(p)
  \/ AddMediaFetch(p)
  \/ AddMediaInsert(p)
  \/ AddMediaGenreSelect(p)
  \/ AddMediaGenreLink(p)
  \/ AddMediaActorSelect(p)
  \/ AddMediaActorLink(p)
  \/ AddMediaGuide(p)
  \/ AddMediaRow(p)
  \/ AddMediaCommit(p)
  \/ RescrapeSelect(p)
  \/ RescrapeUrl(p)
  \/ RescrapeSnapshot(p)
  \/ RescrapeDeleteEpisodes(p)
  \/ RescrapeDeleteSeasons(p)
  \/ RescrapeFetch(p)
  \/ RescrapeRow(p)
  \/ RescrapeCommit(p)

AllFree == \A p \in Procs : Free(p)

Next ==
  \/ nreq < MaxRequests /\ AllFree /\ Arrive("p1")
  \/ nreq < MaxRequests /\ AllFree /\ Toggle
  \/ Step("p1")

Spec == Init /\ [][Next]_vars

ConcNext ==
  \/ nreq < MaxConcRequests /\ \E p \in Procs : Arrive(p)
  \/ nreq < MaxConcRequests /\ Toggle
  \/ \E p \in Procs : Step(p)

ConcSpec == Init /\ [][ConcNext]_vars

\* The requests of Spec, the season toggle and the deletion of a media item, one
\* after the other.
SeasonToggle(p) ==
  \E id \in 1..(seq.seasons + 1) : \E is_watched \in BOOLEAN :
    SeasonWatchedStart(p, id, is_watched)

Delete == \E id \in 1..(seq.media + 1) : DeleteMedia(id)

SeasonWatchedStep(p) ==
  \/ SeasonWatchedSeason(p)
  \/ SeasonWatchedEpisodes(p)
  \/ SeasonWatchedCommit(p)

LibraryNext ==
  \/ nreq < MaxLibraryRequests /\ AllFree /\ Arrive("p1")
  \/ nreq < MaxLibraryRequests /\ AllFree /\ Toggle
  \/ nreq < MaxLibraryRequests /\ AllFree /\ SeasonToggle("p1")
  \/ nreq < MaxLibraryRequests /\ AllFree /\ Delete
  \/ Step("p1")
  \/ SeasonWatchedStep("p1")

LibrarySpec == Init /\ [][LibraryNext]_vars

\* Re-syncs of one series, two of which may run at once.  The library holds the
\* series "Lost" as add-media left it with the guide GuideSeason1, or as a re-sync
\* left it whose guide had no row to accept: no season, and the guide URL stored.
LostRow(epguides_url) ==
  [id |-> 1, imdb_id |-> <<"t", "t", "1">>, title |-> <<"L", "o", "s", "t">>,
   type |-> "tv_show", epguides_url |-> epguides_url]

LibraryWithTree ==
  [EmptyTables EXCEPT
     !.genres = {[id |-> 1, name |-> "Drama"]},
     !.actors = {[id |-> 1, name |-> "Ann"]},
     !.media = {LostRow(<<>>)},
     !.media_genres = {[media_id |-> 1, ref_id |-> 1]},
     !.media_actors = {[media_id |-> 1, ref_id |-> 1]},
     !.seasons = {[id |-> 1, media_id |-> 1, season_number |-> 1,
                   year |-> IntVal(2015), is_watched |-> FALSE]},
     !.episodes = {[id |-> 1, season_id |-> 1, episode_number |-> 1, title |-> <<"P">>,
                    air_date |-> parseAirDate(Jan13), is_watched |-> FALSE],
                   [id |-> 2, season_id |-> 1, episode_number |-> 2, title |-> <<"Q">>,
                    air_date |-> NullDate, is_watched |-> FALSE]}]

LibraryWithoutTree ==
  [LibraryWithTree EXCEPT
     !.media = {LostRow(getEpguidesShowUrl(<<"L", "o", "s", "t">>))},
     !.seasons = {}, !.episodes = {}]

ResyncInit ==
  /\ \/ /\ db = LibraryWithTree
        /\ seq = [media |-> 1, genres |-> 1, actors |-> 1, seasons |-> 1, episodes |-> 2]
     \/ /\ db = LibraryWithoutTree
        /\ seq = [media |-> 1, genres |-> 1, actors |-> 1, seasons |-> 0, episodes |-> 0]
  /\ tx = [p \in Procs |-> EmptyTx]
  /\ req = [p \in Procs |-> IdleReq]
  /\ held = {}
  /\ nreq = 0
  /\ TMDB_API_KEY = TRUE
  /\ groupedMedia = {}
  /\ call = [fn |-> "none", arg |-> <<>>, result |-> <<>>]

ResyncArrive(p) ==
  \E id \in 1..seq.media : \E customUrl \in CustomUrls : RescrapeStart(p, id, customUrl)

ResyncStep(p) ==
  \/ RescrapeSelect(p)
  \/ RescrapeUrl(p)
  \/ RescrapeSnapshot(p)
  \/ RescrapeDeleteEpisodes(p)
  \/ RescrapeDeleteSeasons(p)
  \/ RescrapeFetch(p)
  \/ RescrapeRow(p)
  \/ RescrapeCommit(p)

ResyncNext ==
  \/ nreq < MaxResyncs /\ \E p \in Procs : ResyncArrive(p)
  \/ \E p \in Procs : ResyncStep(p)

ResyncSpec == ResyncInit /\ [][ResyncNext]_vars

(***************************************************************************)
(* The text helpers taken on their own: normalizeTitleForEpguides and the  *)
(* rating expression of add-media, each applied once to a text made of a   *)
(* few pieces.  "U+2013" is the en dash as one character.                  *)
(***************************************************************************)
MaxParts == 2

ratingBeforeSlash(ratingText) == Split(ratingText, "/")[1]

\* const rating = ratingText.split('.').length > 2
\*                  ? ratingText.substring(0, 3) : ratingText.split('/')[0];
rating(ratingText) ==
  IF Len(Split(ratingText, ".")) > 2
  THEN SubSeq(ratingText, 1, Min({3, Len(ratingText)}))
  ELSE Split(ratingText, "/")[1]

Pieces ==
  {<<"T","h","e"," ","O","f","f","i","c","e">>,
   <<"B","r","e","a","k","i","n","g"," ","B","a","d">>,
   <<" ","(","U","S",")">>,
   <<" ","(","T","V"," ","S","e","r","i","e","s"," ","2","0","0","8",")">>,
   <<" ","(","T","V"," ","S","e","r","i","e","s"," ","2","0","0","8","U+2013","2","0","1","3",")">>,
   <<" ","(","T","V"," ","S","e","r","i","e","s"," ","2","0","0","8","U+00E2","U+20AC","U+201C","2","0","1","3",")">>,
   <<"8",".","7">>,
   <<"/","1","0">>,
   <<".","1">>}

\* What up to n pieces, one after the other, make.
RECURSIVE Composed(_, _)
Composed(pieces, n) ==
  IF n = 0 THEN {<<>>}
  ELSE LET shorter == Composed(pieces, n - 1)
       IN  shorter \cup {t \o piece : t \in shorter, piece \in pieces}

TextInit ==
  /\ db = EmptyTables
  /\ seq = [media |-> 0, genres |-> 0, actors |-> 0, seasons |-> 0, episodes |-> 0]
  /\ tx = [p \in Procs |-> EmptyTx]
  /\ req = [p \in Procs |-> IdleReq]
  /\ held = {}
  /\ nreq = 0
  /\ TMDB_API_KEY = TRUE
  /\ groupedMedia = {}
  /\ call \in {[fn |-> "none", arg |-> t, result |-> <<>>] : t \in Composed(Pieces, MaxParts)}

CallNormalizeTitle ==
  /\ call.fn = "none"
  /\ call' = [call EXCEPT !.fn = "normalizeTitleForEpguides",
                          !.result = normalizeTitleForEpguides(call.arg)]
  /\ UNCHANGED <<db, seq, tx, req, held, nreq, TMDB_API_KEY, groupedMedia>>

CallRating ==
  /\ call.fn = "none"
  /\ call' = [call EXCEPT !.fn = "rating", !.result = rating(call.arg)]
  /\ UNCHANGED <<db, seq, tx, req, held, nreq, TMDB_API_KEY, groupedMedia>>

TextNext == CallNormalizeTitle \/ CallRating

TextSpec == TextInit /\ [][TextNext]_vars

(***************************************************************************)
(* One add-media request taken on its own, whose guide is any document of  *)
(* up to MaxRows rows out of GuideRows: the three kinds of header, rows of *)
(* the regular pattern with an air date, with none, with a two-word one    *)
(* and with three words that are no date, and a row of the special pattern.*)
(***************************************************************************)
MaxRows == 3

GuideRows ==
  {Hdr(Season1), Hdr(Season2), Hdr(SpecialsWord),
   Data(<<"1","-","1">>, Jan13, <<"P">>),
   Data(<<"1","-","2">>, <<>>, <<"Q">>),
   Data(<<"2","-","1">>, <<"J","a","n"," ","1","5">>, <<"R">>),
   Data(<<"2","-","2">>, Jxn13, <<"T">>),
   Data(<<"S","1",".","x","-","3">>, Jan13, <<"Y">>)}

GuideNext ==
  \/ nreq = 0 /\ \E imdbUrl \in ImdbUrls : AddMediaStart("p1", imdbUrl)
  \/ AddMediaSelect("p1")
  \/ AddMediaFetch("p1")
  \/ AddMediaInsert("p1")
  \/ AddMediaGenreSelect("p1")
  \/ AddMediaGenreLink("p1")
  \/ AddMediaActorSelect("p1")
  \/ AddMediaActorLink("p1")
  \/ AddMediaGuideOf("p1", Composed({<<row>> : row \in GuideRows}, MaxRows))
  \/ AddMediaRow("p1")
  \/ AddMediaCommit("p1")

GuideSpec == Init /\ [][GuideNext]_vars

\* The requests that use the catalog, and add-media by URL, one after the other;
\* the environment may or may not hold a TMDB_API_KEY.
CatalogInit ==
  /\ db = EmptyTables
  /\ seq = [media |-> 0, genres |-> 0, actors |-> 0, seasons |-> 0, episodes |-> 0]
  /\ tx = [p \in Procs |-> EmptyTx]
  /\ req = [p \in Procs |-> IdleReq]
  /\ held = {}
  /\ nreq = 0
  /\ TMDB_API_KEY \in BOOLEAN
  /\ groupedMedia = {}
  /\ call = [fn |-> "none", arg |-> <<>>, result |-> <<>>]

CatalogArrive(p) ==
  \/ \E imdbUrl \in ImdbUrls \cup {<<>>} : AddMediaStart(p, imdbUrl)
  \/ \E type \in {"movie", "tv"} : AddMediaByCatalog(p, 42, type)
  \/ \E filter \in Filters : \E count \in 1..MaxPages : DiscoverStart(p, filter, count)

CatalogStep(p) ==
  \/ AddMediaResolve(p)
  \/ AddMediaSelect(p)
  \/ AddMediaFetch(p)
  \/ AddMediaInsert(p)
  \/ AddMediaGenreSelect(p)
  \/ AddMediaGenreLink(p)
  \/ AddMediaActorSelect(p)
  \/ AddMediaActorLink(p)
  \/ AddMediaGuide(p)
  \/ AddMediaRow(p)
  \/ AddMediaCommit(p)
  \/ DiscoverPage(p)
  \/ DiscoverPageFails(p)
  \/ DiscoverJoin(p)
  \/ FetchDiscoverFormat(p)

CatalogNext ==
  \/ nreq < MaxCatalogRequests /\ AllFree /\ CatalogArrive("p1")
  \/ AllFree /\ FetchMedia
  \/ CatalogStep("p1")

CatalogSpec == CatalogInit /\ [][CatalogNext]_vars

(***************************************************************************)
(* Properties.  Unless said otherwise they are stated of Spec, where pre   *)
(* is the committed store just before the request ran.                     *)
(***************************************************************************)
\* Request p answers in this step.
Responds(p) == req[p].pc # "done" /\ req'[p].pc = "done"

IsDone(p, kind) == req[p].pc = "done" /\ req[p].kind = kind

\* The (season number, episode number) keys of the episodes of a media item.
KeysOf(v, mediaId) ==
  {<<e.season_number, e.episode_number>> : e \in Tree(v, mediaId).episodes}

\* The keys a parse of rows accepts, as a set.
KeySet(rows) ==
  LET keys == ParsedKeys(rows)
  IN  {<<keys[k].season, keys[k].episode>> : k \in 1..Len(keys)}

\* Some row the parse accepts has an air date that is no date: its INSERT fails.
HasBadRow(rows) ==
  LET keys == ParsedKeys(rows)
  IN  \E k \in 1..Len(keys) : keys[k].airDate = InvalidDate

\* The media rows with a given external id.
WithImdbId(v, imdbId) == {m \in v.media : m.imdb_id = imdbId}

\* C1: add-media for an external id that a persisted MediaItem already has is
\* answered 409 with that item's id and persists nothing; no two media rows share
\* an external id; and an external id whose add-media was answered 201 has exactly
\* one media row.
C1_OneRowPerExternalId ==
  /\ \A m1, m2 \in db.media : m1.imdb_id = m2.imdb_id => m1 = m2
  /\ \A p \in Procs :
       IsDone(p, "add") /\ req[p].imdbId # <<>> =>
         /\ \A m \in WithImdbId(req[p].pre, req[p].imdbId) :
              /\ req[p].status = 409
              /\ req[p].body = m.id
              /\ db.media = req[p].pre.media
              /\ db.seasons = req[p].pre.seasons
         /\ req[p].status = 201 =>
              Cardinality(WithImdbId(db, req[p].imdbId)) = 1

\* C2: when a re-sync answers 204, an episode persisted for the media item is
\* watched if and only if some episode of the item with the same (season number,
\* episode number) was watched just before the re-sync; so a watched key that the
\* fresh parse lacks is carried by no episode.
C2_WatchedRestoredByKey ==
  [][\A p \in Procs :
       Responds(p) /\ req'[p].kind = "rescrape" /\ req'[p].status = 204 =>
         /\ \A e \in Tree(db', req[p].id).episodes :
              e.is_watched <=>
                <<e.season_number, e.episode_number>> \in WatchedKeys(req[p].pre, req[p].id)
         /\ \A k \in WatchedKeys(req[p].pre, req[p].id) \ KeySet(req[p].rows) :
              k \notin KeysOf(db', req[p].id)]_vars

\* A re-sync answered 204 after which one episode is watched and another is not,
\* and before which a watched key existed that the fresh parse lacks or keeps.
C2_Witness ==
  \E p \in Procs :
    /\ IsDone(p, "rescrape") /\ req[p].status = 204
    /\ \E e \in Tree(db, req[p].id).episodes : e.is_watched
    /\ \E e \in Tree(db, req[p].id).episodes : ~e.is_watched
    /\ WatchedKeys(req[p].pre, req[p].id) # {}

\* C3: when the guide fetch of a re-sync fails, the re-sync answers 500, its
\* transaction is over and the seasons and episodes, watched flags included, are
\* the rows that were there before the re-sync.
C3_FetchFailureRollsBack ==
  [][\A p \in Procs :
       req[p].pc = "rs_fetch" /\ req'[p].pc = "done" =>
         /\ req'[p].status = 500
         /\ tx'[p] = EmptyTx
         /\ db'.seasons = req[p].pre.seasons
         /\ db'.episodes = req[p].pre.episodes]_vars

\* A re-sync that failed at the fetch, of an item that has a watched episode.
C3_Witness ==
  \E p \in Procs :
    /\ IsDone(p, "rescrape") /\ req[p].status = 500 /\ ~req[p].fetched
    /\ \E e \in Tree(db, req[p].id).episodes : e.is_watched

\* The add-media request p got as far as the episode guide and the extraction
\* failed: the fetch, or the INSERT of a row.
GuideExtractionFailed(p) ==
  /\ IsDone(p, "add")
  /\ req[p].epguidesShowUrl # <<>>
  /\ ~req[p].fetched \/ HasBadRow(req[p].rows)

\* C4: when the episode-guide extraction of an add-media fails, at the fetch or
\* after some rows were inserted, the call is answered 201 and the MediaItem is
\* committed with its genre and actor links and with no season and no episode.
C4_GuideFailureKeepsMediaItem ==
  \A p \in Procs :
    GuideExtractionFailed(p) =>
      /\ req[p].status = 201
      /\ \E m \in db.media : m.id = req[p].newMedia /\ m.imdb_id = req[p].imdbId
      /\ \E l \in db.media_genres : l.media_id = req[p].newMedia
      /\ \E l \in db.media_actors : l.media_id = req[p].newMedia
      /\ SeasonsOf(db, req[p].newMedia) = {}
      /\ EpisodesOf(db, SeasonsOf(db, req[p].newMedia)) = {}

\* C5: when add-media fails on its mandatory path (the page fetch, the title, the
\* INSERT of the media row or of a genre or actor row or link), it answers 500, its
\* transaction is over and the committed rows are those from before the call.
C5_MandatoryFailurePersistsNothing ==
  [][\A p \in Procs :
       /\ req[p].pc \in {"am_fetch", "am_insert", "am_genre_link", "am_actor_link"}
       /\ req'[p].pc = "done"
       => /\ req'[p].status = 500
          /\ tx'[p] = EmptyTx
          /\ db' = req[p].pre]_vars

\* An add-media answered 500 after its media row and a genre row were inserted.
C5_Witness ==
  \E p \in Procs :
    /\ IsDone(p, "add") /\ req[p].status = 500
    /\ req[p].newMedia # 0
    /\ seq.genres > Cardinality(db.genres)

\* C6: a re-sync of an item that has episodes, whose guide is fetched and has no
\* row the parse accepts, is answered 500 and leaves the episode tree of before the
\* re-sync.
C6_NoRowsAbortsResync ==
  \A p \in Procs :
    /\ IsDone(p, "rescrape") /\ req[p].fetched
    /\ ParsedKeys(req[p].rows) = <<>>
    /\ KeysOf(req[p].pre, req[p].id) # {}
    => /\ req[p].status = 500
       /\ KeysOf(db, req[p].id) = KeysOf(req[p].pre, req[p].id)

\* The media item a finished guide pass of request p wrote to, if the pass ran to
\* its end over a guide all of whose accepted rows can be inserted.
PassTarget(p) == IF req[p].kind = "add" THEN req[p].newMedia ELSE req[p].id

CleanPass(p) ==
  /\ req[p].pc = "done"
  /\ req[p].fetched
  /\ ~HasBadRow(req[p].rows)

\* C7: no media item has two seasons of one number; and a guide pass over rows
\* that can all be inserted succeeds and leaves, for each season number the parse
\* accepted (0 included), exactly one season row, with one episode row per
\* accepted row.
C7_SeasonInsertedOnce ==
  /\ \A x, y \in db.seasons :
       x.media_id = y.media_id /\ x.season_number = y.season_number => x = y
  /\ \A p \in Procs :
       CleanPass(p) =>
         /\ req[p].status = IF req[p].kind = "add" THEN 201 ELSE 204
         /\ \A k \in KeySet(req[p].rows) :
              Cardinality({x \in SeasonsOf(db, PassTarget(p)) :
                             x.season_number = k[1]}) = 1
         /\ Cardinality(EpisodesOf(db, SeasonsOf(db, PassTarget(p))))
              = Len(ParsedKeys(req[p].rows))

\* A finished pass in which two guide rows referred to one season, the store also
\* holding a season 0.
C7_Witness ==
  \E p \in Procs :
    /\ CleanPass(p)
    /\ \E x \in SeasonsOf(db, PassTarget(p)) : Cardinality(EpisodesOf(db, {x})) = 2
    /\ \E x \in db.seasons : x.season_number = 0

\* C8: no season has two episodes of one episode number.
C8_EpisodeNumberUniqueInSeason ==
  \A e1, e2 \in db.episodes :
    e1.season_id = e2.season_id /\ e1.episode_number = e2.episode_number => e1 = e2

\* C9: when a re-sync has answered 204, the keys persisted for the media item are
\* the keys the fresh parse accepted, its season numbers are those of these keys,
\* and no season or episode row of before the re-sync is left.
C9_TreeReplaced ==
  \A p \in Procs :
    IsDone(p, "rescrape") /\ req[p].status = 204 =>
      /\ KeysOf(db, req[p].id) = KeySet(req[p].rows)
      /\ {x.season_number : x \in SeasonsOf(db, req[p].id)}
           = {k[1] : k \in KeySet(req[p].rows)}
      /\ \A x \in db.seasons : x.media_id = req[p].id => x \notin req[p].pre.seasons
      /\ \A e \in EpisodesOf(db, SeasonsOf(db, req[p].id)) :
           \A o \in req[p].pre.episodes : e.id # o.id

\* A re-sync answered 204 that replaced a tree by one with other keys.
C9_Witness ==
  \E p \in Procs :
    /\ IsDone(p, "rescrape") /\ req[p].status = 204
    /\ KeysOf(db, req[p].id) # {}
    /\ KeysOf(req[p].pre, req[p].id) \ KeysOf(db, req[p].id) # {}

\* C10 (of ConcSpec): no two media rows share an external id, and of two add-media
\* requests for one external id, one of which created the row, the other, if it
\* scraped its page and was refused at its INSERT, is answered 409.
C10_LoserAnswered409 ==
  /\ \A m1, m2 \in db.media : m1.imdb_id = m2.imdb_id => m1 = m2
  /\ \A p, q \in Procs :
       /\ p # q
       /\ IsDone(p, "add") /\ IsDone(q, "add")
       /\ req[p].imdbId = req[q].imdbId
       /\ req[p].status = 201
       /\ \E m \in db.media : m.id = req[p].newMedia
       /\ req[q].title # <<>> /\ req[q].newMedia = 0
       => req[q].status = 409

\* C11: a re-sync of an id no media row has is answered 404, and one of a media
\* row that is no series is answered 400; the handler has then begun no
\* transaction and sent no request to the guide, and the store, the cached guide
\* URL included, is as it was when the request arrived.
C11_GuardsTouchNothing ==
  [][\A p \in Procs :
       LET found == {m \in req[p].pre.media : m.id = req[p].id}
           movie == \E m \in found : m.type # "tv_show"
       IN  Responds(p) /\ req[p].kind = "rescrape" /\ (found = {} \/ movie) =>
             /\ req'[p].status = IF found = {} THEN 404 ELSE 400
             /\ tx[p].st = "idle" /\ tx'[p] = EmptyTx
             /\ req'[p].fetches = 0 /\ ~req'[p].fetched
             /\ db' = req[p].pre]_vars

\* A re-sync of a movie has been answered.
C11_Witness ==
  \E p \in Procs :
    /\ IsDone(p, "rescrape") /\ req[p].status = 400
    /\ \E m \in db.media : m.id = req[p].id /\ m.type = "movie"

\* The handlers that have taken a client from the pool and not yet answered.
Connected == {p \in Procs : ~Free(p) /\ req[p].pc \notin {"am_resolve", "dc_wait"}}

\* C17: the clients out of the pool are those of the add-media and re-sync
\* handlers that have connected and not yet answered: a handler keeps its client
\* until it answers and gives it back when it answers, whatever the answer, so
\* that no client is held once every call has completed.
C17_ClientReleasedOnEveryExit == held = Connected

\* An add-media whose guide INSERT failed inside the handler has answered 201.
C17_Witness ==
  \E p \in Procs :
    /\ IsDone(p, "add") /\ req[p].status = 201
    /\ req[p].fetched /\ HasBadRow(req[p].rows)
    /\ held = {}

\* C20: the episode a guide row inserts has as its parent a season of the media
\* item being ingested or re-synced whose number is the season number extracted
\* from that row; and no step changes the number of the season that owns a
\* persisted episode.
C20_EpisodeUnderItsSeason ==
  [][/\ \A p \in Procs :
          req[p].pc \in {"am_rows", "rs_rows"} =>
            LET r == ParseRow(req[p].currentSeason, req[p].rows[req[p].i])
            IN  \A e \in tx'[p].ins.episodes \ tx[p].ins.episodes :
                  \E x \in tx'[p].ins.seasons :
                    /\ x.id = e.season_id
                    /\ x.media_id = PassTarget(p)
                    /\ x.season_number = r.seasonForEpisode
                    /\ e.episode_number = r.episodeInSeason
     /\ \A e \in db.episodes \cap db'.episodes :
          \A x \in db.seasons : \A y \in db'.seasons :
            x.id = e.season_id /\ y.id = e.season_id =>
              x.season_number = y.season_number]_vars

\* A pass has committed an episode whose row gave its season number in the special
\* pattern, under another header.
C20_Witness ==
  \E p \in Procs :
    /\ CleanPass(p)
    /\ \E x \in SeasonsOf(db, PassTarget(p)) :
         /\ x.season_number = 1
         /\ \E y \in SeasonsOf(db, PassTarget(p)) : y.season_number = 0
         /\ \E e \in EpisodesOf(db, {x}) : e.episode_number = 2

\* C18 (of LibrarySpec): after every step each season row refers to a media row
\* and each episode row to a season row; and a step that removes a media row
\* leaves no season of it and no episode of such a season.
C18_RowsHaveTheirParents ==
  [][/\ \A x \in db'.seasons : \E m \in db'.media : m.id = x.media_id
     /\ \A e \in db'.episodes : \E x \in db'.seasons : x.id = e.season_id
     /\ \A m \in db.media :
          (\A n \in db'.media : n.id # m.id) =>
            /\ SeasonsOf(db', m.id) = {}
            /\ db'.episodes \cap EpisodesOf(db, SeasonsOf(db, m.id)) = {}]_vars

\* A series that had episodes has been deleted while another item keeps its own.
C18_Witness ==
  /\ AllFree
  /\ \E id \in 1..seq.media :
       /\ \A m \in db.media : m.id # id
       /\ \E x \in req["p1"].pre.seasons : x.media_id = id
  /\ db.episodes # {}

\* The tables d after the watched flag of season id and of its episodes is set to v.
Marked(d, id, v) ==
  [d EXCEPT !.seasons = {IF x.id = id THEN [x EXCEPT !.is_watched = v] ELSE x : x \in @},
            !.episodes = {IF e.season_id = id THEN [e EXCEPT !.is_watched = v] ELSE e :
                            e \in @}]

\* C19 (of LibrarySpec): a season toggle with value v answers either 204, the store
\* being the one at arrival with the flag of that season and of each of its
\* episodes set to v and nothing else changed, or 500, the store being the one at
\* arrival; and no step before the answer changes the committed rows.
C19_SeasonToggleIsAtomic ==
  [][\A p \in Procs :
       req[p].kind = "season_watched" /\ ~Free(p) =>
         IF Responds(p)
         THEN \/ /\ req'[p].status = 204
                 /\ db' = Marked(req[p].pre, req[p].id, req[p].is_watched)
              \/ /\ req'[p].status = 500
                 /\ db' = req[p].pre
         ELSE db' = req[p].pre]_vars

\* A season toggle answered 204 has changed the flag of a season and of an episode
\* of it, the store holding an episode of another season too.
C19_Witness ==
  \E p \in Procs :
    /\ IsDone(p, "season_watched") /\ req[p].status = 204
    /\ \E e \in req[p].pre.episodes :
         e.season_id = req[p].id /\ e.is_watched # req[p].is_watched
    /\ \E e \in db.episodes : e.season_id # req[p].id

(***************************************************************************)
(* Properties of CatalogSpec.                                              *)
(***************************************************************************)
\* Request p arrives in this step.
Arrives(p, kind) == nreq' = nreq + 1 /\ req'[p].kind = kind

\* Request p is answered in this step, which may be the one it arrives in.
AnswersNow(p) == req'[p].pc = "done" /\ (req[p].pc # "done" \/ nreq' # nreq)

\* The pages a discovery handler got, in page order, and their items.
PagesOf(r) == [i \in 1..r.numPages |-> r.responses[i]]

\* The first position of an item with the given id.
FirstOf(items, id) == Min({k \in 1..Len(items) : items[k].id = id})

\* C12 (of CatalogSpec): in the list a discovery request is answered with, no id
\* occurs twice, the items stand in the order in which their ids first occur in
\* the pages put one after the other, each has a poster and is a movie or a
\* series, and no item is there whose id first occurs with another type.
C12_DiscoveryDeduplicates ==
  \A p \in Procs :
    req[p].kind = "discover" /\ req[p].status = 200 =>
      LET all == allResults(PagesOf(req[p]))
          res == req[p].results
          typeOf(item) == IF item.media_type # "" THEN item.media_type
                          ELSE defaultMediaType(req[p].filter)
      IN  /\ \A i, j \in 1..Len(res) :
                i < j => /\ res[i].id # res[j].id
                         /\ FirstOf(all, res[i].id) < FirstOf(all, res[j].id)
          /\ \A i \in 1..Len(res) :
                /\ res[i].poster_path # ""
                /\ res[i].type \in {"movie", "tv_show"}
                /\ \E k \in 1..Len(all) : all[k].id = res[i].id
          /\ \A k \in 1..Len(all) :
                k = FirstOf(all, all[k].id) /\ typeOf(all[k]) \notin {"movie", "tv"} =>
                  \A i \in 1..Len(res) : res[i].id # all[k].id

\* Two pages that share an item have been answered and the item is in the list.
C12_Witness ==
  \E p \in Procs :
    /\ req[p].kind = "discover" /\ req[p].status = 200 /\ req[p].numPages = 2
    /\ \E a \in 1..Len(req[p].responses[1]) : \E b \in 1..Len(req[p].responses[2]) :
         /\ req[p].responses[1][a].id = req[p].responses[2][b].id
         /\ \E i \in 1..Len(req[p].results) :
              req[p].results[i].id = req[p].responses[1][a].id

\* C13 (of CatalogSpec): neither the list a discovery request is answered with nor
\* the list fetchDiscover makes of it holds an item whose title, case apart, is
\* the title of a media row of the library at the time of the request.
C13_NoLibraryTitle ==
  \A p \in Procs :
    req[p].kind = "discover" /\ req[p].status = 200 =>
      LET owned == {toLowerCase(m.title) : m \in req[p].pre.media}
      IN  /\ \A i \in 1..Len(req[p].results) :
                toLowerCase(req[p].results[i].title) \notin owned
          /\ \A i \in 1..Len(req[p].formatted) :
                toLowerCase(req[p].formatted[i].title) \notin owned

\* C14 (of CatalogSpec): a discovery request with a key sends its N page requests
\* in the step it arrives in and sends no other; the step in which one of them
\* fails while the handler waits answers 500 with no list; 200 is answered only
\* when all N have been answered with a page; and what comes after the answer
\* changes neither the status nor the list.
C14_AllPagesOrNone ==
  [][\A p \in Procs :
       /\ Arrives(p, "discover") /\ TMDB_API_KEY =>
            /\ req'[p].pending = 1..req'[p].numPages
            /\ req'[p].fetches = req'[p].numPages
            /\ req'[p].responses = <<>>
       /\ req[p].kind = "discover" /\ nreq' = nreq =>
            /\ req'[p].fetches = req[p].fetches
            /\ req[p].pc = "dc_wait" /\ DiscoverPageFails(p) =>
                 /\ req'[p].pc = "done" /\ req'[p].status = 500
                 /\ req'[p].results = <<>>
            /\ req[p].status # 200 /\ req'[p].status = 200 =>
                 /\ req[p].pending = {}
                 /\ DOMAIN req[p].responses = 1..req[p].fetches
                 /\ \A i \in DOMAIN req[p].responses : req[p].responses[i] \in CatalogPages
            /\ req[p].status # 0 =>
                 /\ req'[p].status = req[p].status
                 /\ req'[p].results = req[p].results]_vars

\* Of two page requests one was answered with a page and the other failed: 500.
C14_Witness ==
  \E p \in Procs :
    /\ IsDone(p, "discover") /\ req[p].status = 500
    /\ req[p].numPages = 2 /\ req[p].pending = {}
    /\ Cardinality(DOMAIN req[p].responses) = 1

\* C15 (of CatalogSpec): without a TMDB_API_KEY, a discovery request and an
\* add-media request with a tmdbId are answered 503 in the step they arrive in:
\* no request is sent to the catalog or a source, no client is taken from the
\* pool, no transaction is begun and no row or sequence changes.
C15_UnconfiguredAnswers503 ==
  [][\A p \in Procs :
       /\ ~TMDB_API_KEY
       /\ \/ Arrives(p, "discover")
          \/ Arrives(p, "add") /\ req'[p].tmdbId # 0
       => /\ req'[p].pc = "done" /\ req'[p].status = 503
          /\ req'[p].fetches = 0 /\ req'[p].pending = {}
          /\ held' = held /\ p \notin held
          /\ tx' = tx /\ db' = db /\ seq' = seq]_vars

\* Without a key, over a library that holds a row, a discovery request has been
\* answered 503.
C15_Witness ==
  \E p \in Procs :
    /\ ~TMDB_API_KEY
    /\ IsDone(p, "discover") /\ req[p].status = 503
    /\ db.media # {}

\* C16 (of CatalogSpec): an add-media request is answered 500 when the catalog
\* lookup fails, 404 when it gives no imdb_id, 400 when the request has neither an
\* imdbUrl nor a tmdbId, and 400 when its URL holds no identifier; in each case no
\* transaction was begun and no row or sequence has changed since it arrived.
C16_ResolutionFailures ==
  [][\A p \in Procs :
       AnswersNow(p) /\ req'[p].kind = "add" =>
         LET r == req'[p]
             lookupFailed == r.tmdbRes = "failed"
             noImdbId == r.tmdbRes = "no_imdb_id"
             missing == r.tmdbId = 0 /\ r.imdbUrl = <<>>
             invalid == r.imdbUrl # <<>> /\ imdbIdMatch(r.imdbUrl) = NoMatch
         IN  /\ lookupFailed => r.status = 500
             /\ noImdbId => r.status = 404
             /\ missing => r.status = 400
             /\ invalid => r.status = 400
             /\ lookupFailed \/ noImdbId \/ missing \/ invalid =>
                  /\ tx[p].st = "idle" /\ tx'[p] = EmptyTx
                  /\ db' = r.pre /\ db' = db /\ seq' = seq
                  /\ p \notin held']_vars

\* Over a library that holds a row, a lookup that gave no imdb_id was answered 404.
C16_Witness ==
  \E p \in Procs :
    /\ IsDone(p, "add") /\ req[p].tmdbRes = "no_imdb_id" /\ req[p].status = 404
    /\ db.media # {}

\* The media row of an id, as persisted.
MediaRow(d, id) == CHOOSE m \in d.media : m.id = id

\* C25: a re-sync uses the URL of its request if it has one, else the URL
\* persisted for the media item if there is one, else the URL derived from the
\* item's title; and when the re-sync has answered 204 the URL persisted for the
\* item is the URL it used, so that a later re-sync without a URL picks it.
C25_UrlPrecedence ==
  [][\A p \in Procs :
       /\ req[p].pc = "rs_url" /\ req'[p].pc # "rs_url" =>
            req'[p].epguidesShowUrl =
              IF req[p].customUrl # <<>> THEN req[p].customUrl
              ELSE IF MediaRow(db, req[p].id).epguides_url # <<>>
              THEN MediaRow(db, req[p].id).epguides_url
              ELSE baseUrl \o normalizeTitleForEpguides(MediaRow(db, req[p].id).title)
                     \o <<"/">>
       /\ req[p].kind = "rescrape" /\ req[p].pc \notin {"rs_select", "rs_url", "done"} =>
            req'[p].epguidesShowUrl = req[p].epguidesShowUrl
       /\ Responds(p) /\ req'[p].kind = "rescrape" /\ req'[p].status = 204 =>
            MediaRow(db', req[p].id).epguides_url = req[p].epguidesShowUrl]_vars

\* A re-sync without a URL has picked the persisted URL, which an earlier re-sync
\* derived from the title and stored.
C25_Witness ==
  \E p \in Procs :
    /\ req[p].kind = "rescrape" /\ req[p].pc = "rs_snapshot"
    /\ req[p].customUrl = <<>>
    /\ MediaRow(db, req[p].id).epguides_url = req[p].epguidesShowUrl
    /\ req[p].epguidesShowUrl = getEpguidesShowUrl(req[p].title)

\* Some name occurs twice in a list of names.
Repeats(names) ==
  \E i, j \in 1..Len(names) : i # j /\ names[i] = names[j]

\* C26: an add-media of a movie whose page lists one genre name twice, once it
\* has inserted its media row, is answered 201, the name having one genres row and
\* the new item one link to it.
C26_RepeatedNameIngested ==
  \A p \in Procs :
    /\ IsDone(p, "add") /\ req[p].newMedia # 0 /\ req[p].mediaType = "movie"
    /\ Repeats(req[p].genres)
    => /\ req[p].status = 201
       /\ \A i \in 1..Len(req[p].genres) :
            /\ Cardinality({g \in db.genres : g.name = req[p].genres[i]}) = 1
            /\ Cardinality({l \in db.media_genres :
                              /\ l.media_id = req[p].newMedia
                              /\ \E g \in db.genres :
                                   g.name = req[p].genres[i] /\ g.id = l.ref_id}) = 1

\* The step of an add-media call a handler position belongs to: 1 resolving the
\* identifier, 2 extracting from the primary source and inserting the item with
\* its genres and actors, 3 extracting the episodes, 4 committing, 5 answered.
Phase(pc) ==
  CASE pc \in {"am_resolve", "am_select"} -> 1
    [] pc \in {"am_fetch", "am_insert", "am_genre_select", "am_genre_link",
               "am_actor_select", "am_actor_link"} -> 2
    [] pc \in {"am_guide", "am_rows"} -> 3
    [] pc = "am_commit" -> 4
    [] OTHER -> 5

\* C28: an add-media call never goes back to an earlier step and is answered 201
\* only from the commit; it sends requests only for the identifier, the page and
\* the guide;
\* it extracts episodes if and only if the item was classified a series, and it
\* sends the guide request only after the page was scraped and the media row, the
\* genres and the actors were inserted.
C28_IngestStepsInOrder ==
  [][\A p \in Procs :
       req[p].kind = "add" /\ req[p].pc # "done" /\ req'[p] # req[p] =>
         /\ req'[p].kind = "add"
         /\ Phase(req'[p].pc) >= Phase(req[p].pc)
         /\ req'[p].status = 201 => req[p].pc = "am_commit"
         /\ req'[p].fetches # req[p].fetches =>
              /\ req[p].pc \in {"am_resolve", "am_fetch", "am_guide"}
              /\ req'[p].fetches = req[p].fetches + 1
         /\ Phase(req[p].pc) = 2 /\ Phase(req'[p].pc) > 2 /\ req'[p].status # 500 =>
              (Phase(req'[p].pc) = 3 <=> req[p].mediaType = "tv_show")
         /\ req[p].pc = "am_guide" =>
              /\ req[p].fetches >= 1
              /\ req[p].mediaType = "tv_show"
              /\ req[p].title # <<>>
              /\ \E m \in tx[p].ins.media :
                   m.id = req[p].newMedia /\ m.title = req[p].title
              /\ \A i \in 1..Len(req[p].genres) :
                   \E g \in Apply(db, tx[p]).genres : g.name = req[p].genres[i]]_vars

\* A series was added with the episodes of its guide, after two requests.
C28_Witness ==
  \E p \in Procs :
    /\ IsDone(p, "add") /\ req[p].status = 201
    /\ req[p].mediaType = "tv_show" /\ req[p].fetches = 2
    /\ Tree(db, req[p].newMedia).episodes # {}

\* C30 (of LibrarySpec): when a re-sync answers 204, no season of the media item
\* is marked watched, whatever the seasons' flags were before the re-sync, while
\* the episodes are watched as their keys were before it.
C30_SeasonFlagReset ==
  [][\A p \in Procs :
       Responds(p) /\ req'[p].kind = "rescrape" /\ req'[p].status = 204 =>
         /\ \A x \in SeasonsOf(db', req[p].id) : ~x.is_watched
         /\ \A e \in Tree(db', req[p].id).episodes :
              e.is_watched <=>
                <<e.season_number, e.episode_number>> \in WatchedKeys(db, req[p].id)]_vars

\* A re-sync answered 204 for an item that had a season marked watched: the
\* season it wrote is not marked, and an episode under it is.
C30_Witness ==
  \E p \in Procs :
    /\ IsDone(p, "rescrape") /\ req[p].status = 204
    /\ \E x \in SeasonsOf(req[p].pre, req[p].id) : x.is_watched
    /\ \E e \in Tree(db, req[p].id).episodes : e.is_watched
    /\ \A x \in SeasonsOf(db, req[p].id) : ~x.is_watched

\* The episode keys and the season numbers persisted for a media item are those
\* the parse of rows accepts.
TreeIsParseOf(d, mediaId, rows) ==
  /\ KeysOf(d, mediaId) = KeySet(rows)
  /\ {x.season_number : x \in SeasonsOf(d, mediaId)} = {k[1] : k \in KeySet(rows)}

\* C29 (of ResyncSpec): when two re-syncs of one media item have both answered,
\* the item has no two seasons of one number and, if one of them answered 204, the
\* tree persisted for the item is the parse of one that answered 204.
C29_ResyncsDoNotMix ==
  nreq = 2 /\ (\A p \in Procs : IsDone(p, "rescrape")) =>
    \A id \in {req[p].id : p \in Procs} :
      /\ \A x, y \in SeasonsOf(db, id) : x.season_number = y.season_number => x = y
      /\ (\E p \in Procs : req[p].status = 204) =>
           \E p \in Procs : req[p].status = 204 /\ TreeIsParseOf(db, id, req[p].rows)

\* C22: the guide slug of a title is the title without "(TV Series YYYY)" or
\* "(TV Series YYYY<en dash>YYYY)", then without "(US)", then without every
\* character that is no letter or digit: it holds letters and digits only,
\* "The Office (US)" gives "TheOffice" and "Breaking Bad (TV Series 2008<en dash>2013)"
\* gives "BreakingBad".
C22_SlugDerivation ==
  call.fn = "normalizeTitleForEpguides" =>
    /\ \A i \in 1..Len(call.result) : call.result[i] \in AlphaNum
    /\ call.arg = <<"T","h","e"," ","O","f","f","i","c","e"," ","(","U","S",")">>
         => call.result = <<"T","h","e","O","f","f","i","c","e">>
    /\ call.arg = <<"B","r","e","a","k","i","n","g"," ","B","a","d"," ","(","T","V"," ","S","e","r","i","e","s"," ","2","0","0","8","U+2013","2","0","1","3",")">>
         => call.result = <<"B","r","e","a","k","i","n","g","B","a","d">>

\* C23: a rating text with more than two "."-separated segments gives its first
\* three characters, any other gives what precedes its first "/" (all of it when
\* it has none): "8.7" and "8.7/10" and "8.7.1" all give "8.7".
C23_RatingNormalized ==
  call.fn = "rating" =>
    LET t == call.arg
        dots == {i \in 1..Len(t) : t[i] = "."}
        slashes == {i \in 1..Len(t) : t[i] = "/"}
    IN  /\ Cardinality(dots) >= 2 =>
             /\ Len(call.result) = Min({3, Len(t)})
             /\ \A i \in 1..Len(call.result) : call.result[i] = t[i]
        /\ Cardinality(dots) < 2 /\ slashes = {} => call.result = t
        /\ Cardinality(dots) < 2 /\ slashes # {} =>
             call.result = SubSeq(t, 1, Min(slashes) - 1)
        /\ t \in {<<"8",".","7">>, <<"8",".","7","/","1","0">>, <<"8",".","7",".","1">>} => call.result = <<"8",".","7">>

C23_Witness ==
  /\ call.fn = "rating"
  /\ call.arg = <<"8",".","7",".","1">>
  /\ call.result = <<"8",".","7">>

\* C21: a guide made of the header "Season 1" and the four-column row whose
\* second column is "1-1", third "13 Jan 15" and anchor text P is ingested as
\* exactly one season, numbered 1, and exactly one episode: number 1, title P,
\* air date 2015-01-13.
C21_HeaderAndRowParse ==
  \A p \in Procs :
    /\ IsDone(p, "add")
    /\ req[p].fetched
    /\ req[p].rows = <<Hdr(Season1), Data(<<"1","-","1">>, Jan13, <<"P">>)>>
    => LET seasons == SeasonsOf(db, req[p].newMedia)
           episodes == EpisodesOf(db, seasons)
       IN  /\ req[p].status = 201
           /\ \E s \in seasons : seasons = {s} /\ s.season_number = 1
           /\ \E e \in episodes :
                /\ episodes = {e}
                /\ e.episode_number = 1
                /\ e.title = <<"P">>
                /\ e.air_date = [kind |-> "date", y |-> 2015, m |-> 1, d |-> 13]

C21_Witness ==
  /\ IsDone("p1", "add")
  /\ req["p1"].fetched
  /\ req["p1"].rows = <<Hdr(Season1), Data(<<"1","-","1">>, Jan13, <<"P">>)>>
  /\ Cardinality(db.episodes) = 1

\* A data row of GuideRows is of the special pattern when its second column
\* starts with "S"; the season number it carries is the digit after that "S",
\* or the digit its second column starts with.
IsSpecialRow(row) == row.cols[2][1] = "S"

CarriedSeason(row) ==
  LET c == IF IsSpecialRow(row) THEN row.cols[2][2] ELSE row.cols[2][1]
  IN  IF c = "1" THEN 1 ELSE 2

\* The step runs the INSERTs of a row for season number n: the sequences
\* advance and, unless a statement fails, the transaction holds a new episode
\* under a season numbered n of the new media item.
AcceptedWith(p, n) ==
  /\ seq' # seq
  /\ tx'[p].st # "aborted" =>
       \E e \in tx'[p].ins.episodes \ tx[p].ins.episodes :
         \E s \in tx'[p].ins.seasons :
           s.id = e.season_id /\ s.season_number = n /\ s.media_id = req[p].newMedia

Skipped(p) == seq' = seq /\ tx' = tx

\* C24: in the row loop of the ingest, a header "Season N" sets the running
\* counter to N and a header holding "Specials" sets it to 0, inserting nothing;
\* a data row leaves the counter alone; a row of the special pattern is accepted
\* with the season number it carries whatever the counter is; a row of the regular
\* pattern is accepted with the season number it carries when the counter is 0 or
\* equals that number, and is skipped when the counter is non-zero and differs.
C24_RowAcceptance ==
  [][\A p \in Procs :
       AddMediaRow(p) =>
         LET row == req[p].rows[req[p].i]
             cs == req[p].currentSeason
         IN  IF row.header
             THEN /\ Skipped(p)
                  /\ row.htext = Season1 => req'[p].currentSeason = 1
                  /\ row.htext = Season2 => req'[p].currentSeason = 2
                  /\ row.htext = SpecialsWord => req'[p].currentSeason = 0
             ELSE /\ req'[p].currentSeason = cs
                  /\ IsSpecialRow(row) => AcceptedWith(p, CarriedSeason(row))
                  /\ ~IsSpecialRow(row) /\ cs \in {0, CarriedSeason(row)}
                       => AcceptedWith(p, CarriedSeason(row))
                  /\ ~IsSpecialRow(row) /\ cs \notin {0, CarriedSeason(row)}
                       => Skipped(p)]_vars

\* Under "Season 2" the row 1-1 was skipped and the special row S1.x-3 accepted
\* for season 1.
C24_Witness ==
  /\ req["p1"].pc = "am_commit"
  /\ req["p1"].rows = <<Hdr(Season2), Data(<<"1","-","1">>, Jan13, <<"P">>),
                        Data(<<"S","1",".","x","-","3">>, Jan13, <<"Y">>)>>
  /\ req["p1"].currentSeason = 2
  /\ \E e \in tx["p1"].ins.episodes : \E s \in tx["p1"].ins.seasons :
       /\ tx["p1"].ins.episodes = {e}
       /\ tx["p1"].ins.seasons = {s}
       /\ e.title = <<"Y">> /\ e.episode_number = 3
       /\ s.id = e.season_id /\ s.season_number = 1

\* The air-date text of a data row is a known date when it is "13 Jan 15", the
\* one date among the texts of GuideRows.
UnknownDate(row) == row.cols[3] # Jan13

\* C27: an episode whose air-date text is no known date (empty, not three words,
\* or three words that are no date) is stored with a null air date, and its
\* season, when the row is the season's first, with a null year; no episode is
\* stored with a date that is not a date.  Stated for the guides of one data row
\* under the header of its season.
C27_UnknownDateStoredAsNull ==
  /\ \A e \in db.episodes : e.air_date.kind \in {"null", "date"}
  /\ \A p \in Procs : \A row \in GuideRows :
       /\ IsDone(p, "add")
       /\ req[p].fetched
       /\ ~row.header /\ ~IsSpecialRow(row) /\ UnknownDate(row)
       /\ req[p].rows = <<Hdr(IF CarriedSeason(row) = 1 THEN Season1 ELSE Season2), row>>
       => \E s \in SeasonsOf(db, req[p].newMedia) : \E e \in EpisodesOf(db, {s}) :
            /\ s.season_number = CarriedSeason(row)
            /\ s.year = NullInt
            /\ e.title = row.anchor
            /\ e.air_date = NullDate

====
